---- MODULE Spec2Model ----
(***************************************************************************)
(* ccsesh: discovery of session files, the JSONL session parser and the    *)
(* selection step of the listing command.                                  *)
(*                                                                         *)
(* Strings whose characters matter (cwd, message content, file stems) are  *)
(* sequences of one-character strings; opaque strings (slug, agent name,   *)
(* record type) are TLA+ strings.  Option<T> is a sequence of length <= 1. *)
(***************************************************************************)
EXTENDS Integers, Sequences, FiniteSets, TLC

VARIABLES
    \* parse_session, one scan of one file
    pfile,      \* the session file: [stem, openable, lines]
    ppc,        \* "start" | "scan" | "build" | "done"
    lineNo,     \* lines taken from the reader so far
    acc,        \* [cwd, slug, first_prompt], the three Option accumulators
    presult,    \* Option of the Result<SessionInfo>
    \* the file system under <home>/.claude/projects
    fs,         \* [projects: kind of the projects path, entries: project entries]
    \* discover_sessions, called on its own
    dpc,        \* "setup" | "done"
    dlimit,     \* the limit argument
    dresult,    \* Option of [ok, err, candidates, io]
    \* load_sessions and the listing command
    lpc,        \* "start" | "loop" | "loaded" | "done"
    limit,      \* the --limit argument
    candidates, \* what discover_sessions returned to load_sessions
    ci,         \* index of the next candidate of the for loop
    sessions,   \* the accepted sessions so far
    lresult,    \* Option of [ok, err, sessions]
    output,     \* Option of what the listing command prints
    \* the text functions, called on their own
    tin,        \* the input string
    tbudget,    \* the character budget given to truncate_prompt
    tsecs,      \* the duration in seconds given to the relative-time formatters
    tfn,        \* "" before the call, then the name of the function called
    tout,       \* Option of the function's result
    tagain      \* Option of the result of the function applied to its own result

vars == <<pfile, ppc, lineNo, acc, presult, fs, dpc, dlimit, dresult,
          lpc, limit, candidates, ci, sessions, lresult, output,
          tin, tbudget, tsecs, tfn, tout, tagain>>

parseVars == <<pfile, ppc, lineNo, acc, presult>>
discoverVars == <<dpc, dlimit, dresult>>
loadVars == <<lpc, limit, candidates, ci, sessions, lresult, output>>
textVars == <<tin, tbudget, tsecs, tfn, tout, tagain>>

-----------------------------------------------------------------------------
(* Option and small helpers *)

None == <<>>
Some(x) == <<x>>
IsSome(o) == Len(o) = 1
IsNone(o) == Len(o) = 0
Unwrap(o) == o[1]

Min(a, b) == IF a <= b THEN a ELSE b
Max(a, b) == IF a >= b THEN a ELSE b

-----------------------------------------------------------------------------
(* Characters *)

Digits == {"0", "1", "2", "3", "4", "5", "6", "7", "8", "9"}
LowerLetters == {"a", "b", "c", "d", "e", "f", "g", "h", "i", "j", "k", "l", "m",
                 "n", "o", "p", "q", "r", "s", "t", "u", "v", "w", "x", "y", "z"}
UpperLetters == {"A", "B", "C", "D", "E", "F"}

\* char::is_control
is_control(ch) == ch \in {"\n", "\t", "\r"}
\* char::is_whitespace
is_whitespace(ch) == ch \in {" ", "\n", "\t", "\r"}
\* char::is_alphanumeric
is_alphanumeric(ch) == ch \in Digits \cup LowerLetters \cup UpperLetters
\* u8::is_ascii_hexdigit
is_ascii_hexdigit(b) == b \in Digits \cup {"a", "b", "c", "d", "e", "f"} \cup UpperLetters
\* A test that takes no byte for an uppercase letter.
never_uppercase(b) == FALSE

\* u8::is_ascii_uppercase
is_ascii_uppercase(b) == b \in UpperLetters

-----------------------------------------------------------------------------
(* parse.rs: is_valid_uuid, extract_session_id *)

UuidSegments == <<8, 4, 4, 4, 12>>

\* The segment loop of parse::is_valid_uuid from segment i on, pos being the
\* 0-based byte position; the result is the final pos, or -1 for "return false".
RECURSIVE UuidScan(_, _, _)
UuidScan(bytes, i, pos) ==
    IF i > Len(UuidSegments) THEN pos
    ELSE IF i > 1 /\ bytes[pos + 1] # "-" THEN -1
    ELSE LET p == IF i > 1 THEN pos + 1 ELSE pos
             len == UuidSegments[i]
         IN  IF \A k \in 1..len :
                    /\ p + k - 1 < Len(bytes)
                    /\ is_ascii_hexdigit(bytes[p + k])
                    /\ ~is_ascii_uppercase(bytes[p + k])
             THEN UuidScan(bytes, i + 1, p + len)
             ELSE -1

is_valid_uuid(s) ==
    IF Len(s) # 36 THEN FALSE ELSE UuidScan(s, 1, 0) = 36

\* extract_session_id without the is_valid_uuid test.
extract_session_id_Unchecked(stem) == Some(stem)

\* Result<String>: Some(stem) or None for the error
extract_session_id(stem) ==
    IF ~is_valid_uuid(stem) THEN None ELSE Some(stem)

-----------------------------------------------------------------------------
(* shell.rs: is_valid_uuid *)

\* shell::is_valid_uuid with the last separator looked for one byte too late.
shell_is_valid_uuid_LateSeparator(s) ==
    IF Len(s) # 36 THEN FALSE
    ELSE \A i \in 0..35 :
            IF i \in {8, 13, 18, 24} THEN s[i + 1] = "-"
            ELSE is_ascii_hexdigit(s[i + 1]) /\ ~is_ascii_uppercase(s[i + 1])

\* shell::is_valid_uuid: the loop over bytes.iter().enumerate(), i 0-based,
\* returns false at the first byte that fails its test.
shell_is_valid_uuid(s) ==
    IF Len(s) # 36 THEN FALSE
    ELSE \A i \in 0..35 :
            IF i \in {8, 13, 18, 23} THEN s[i + 1] = "-"
            ELSE is_ascii_hexdigit(s[i + 1]) /\ ~is_ascii_uppercase(s[i + 1])

-----------------------------------------------------------------------------
(* parse.rs: strip_xml_tags, collapse_whitespace *)

\* Index of the first character at or after i that is a newline or '>', or
\* Len(input) + 1 when the inner loop runs off the end of the input.
RECURSIVE TagEnd(_, _)
TagEnd(input, i) ==
    IF i > Len(input) THEN i
    ELSE IF input[i] = "\n" \/ input[i] = ">" THEN i
    ELSE TagEnd(input, i + 1)

\* The outer loop with the scan resumed on the closing '>' instead of after it,
\* so that the '>' of every tag is kept.
RECURSIVE StripFromKeepsClose(_, _, _)
StripFromKeepsClose(input, i, out) ==
    IF i > Len(input) THEN out
    ELSE IF input[i] = "<" THEN
        LET j == TagEnd(input, i + 1)
            skipped == SubSeq(input, i + 1, j - 1)
            hitNewline == j <= Len(input) /\ input[j] = "\n"
            found_close == j <= Len(input) /\ input[j] = ">"
            atEnd == j >= Len(input)
            out1 == IF hitNewline THEN out \o <<"<">> \o skipped \o <<"\n">> ELSE out
            out2 == IF ~found_close /\ atEnd /\ skipped # <<>>
                        THEN out1 \o <<"<">> \o skipped
                    ELSE IF ~found_close /\ skipped = <<>> /\ atEnd
                        THEN out1 \o <<"<">>
                    ELSE out1
        IN  StripFromKeepsClose(input, IF found_close THEN j ELSE j + 1, out2)
    ELSE StripFromKeepsClose(input, i + 1, Append(out, input[i]))

\* The outer while loop of strip_xml_tags from position i with `out` built so far.
RECURSIVE StripFrom(_, _, _)
StripFrom(input, i, out) ==
    IF i > Len(input) THEN out
    ELSE IF input[i] = "<" THEN
        LET j == TagEnd(input, i + 1)
            skipped == SubSeq(input, i + 1, j - 1)
            hitNewline == j <= Len(input) /\ input[j] = "\n"
            found_close == j <= Len(input) /\ input[j] = ">"
            atEnd == j >= Len(input)          \* chars.peek().is_none()
            out1 == IF hitNewline THEN out \o <<"<">> \o skipped \o <<"\n">> ELSE out
            out2 == IF ~found_close /\ atEnd /\ skipped # <<>>
                        THEN out1 \o <<"<">> \o skipped
                    ELSE IF ~found_close /\ skipped = <<>> /\ atEnd
                        THEN out1 \o <<"<">>
                    ELSE out1
        IN  StripFrom(input, j + 1, out2)
    ELSE StripFrom(input, i + 1, Append(out, input[i]))

RECURSIVE CollapseFrom(_, _, _, _)
CollapseFrom(s, i, result, last_was_ws) ==
    IF i > Len(s) THEN result
    ELSE IF is_whitespace(s[i])
        THEN CollapseFrom(s, i + 1,
                          IF ~last_was_ws THEN Append(result, " ") ELSE result, TRUE)
        ELSE CollapseFrom(s, i + 1, Append(result, s[i]), FALSE)

\* str::trim
RECURSIVE TrimStart(_)
TrimStart(s) ==
    IF s # <<>> /\ is_whitespace(Head(s)) THEN TrimStart(Tail(s)) ELSE s
RECURSIVE TrimEnd(_)
TrimEnd(s) ==
    IF s # <<>> /\ is_whitespace(s[Len(s)]) THEN TrimEnd(SubSeq(s, 1, Len(s) - 1)) ELSE s
Trim(s) == TrimEnd(TrimStart(s))

collapse_whitespace(s) == Trim(CollapseFrom(s, 1, <<>>, FALSE))

strip_xml_tags(input) == collapse_whitespace(StripFrom(input, 1, <<>>))

-----------------------------------------------------------------------------
(* types.rs: JsonlLine as one line of the file *)

\* message.content: a JSON value.  kind "string" carries s; kind "array"
\* carries items, each [type: Option(STRING), text: Option(chars)]; kind
\* "other" is any other JSON value.
StringValue(s) == [kind |-> "string", s |-> s, items |-> <<>>]
ArrayValue(items) == [kind |-> "array", s |-> <<>>, items |-> items]
OtherValue == [kind |-> "other", s |-> <<>>, items |-> <<>>]

\* A line of the file.  kind "record": serde_json decoded it to a JsonlLine;
\* "malformed": serde_json::from_str failed; "unreadable": the reader returned
\* Err for the line (invalid UTF-8).
BlankLine ==
    [kind |-> "record", msg_type |-> None, cwd |-> None, session_id |-> None,
     is_meta |-> None, is_compact_summary |-> None, slug |-> None,
     agent_name |-> None, message |-> None]

MalformedLine == [BlankLine EXCEPT !.kind = "malformed"]
UnreadableLine == [BlankLine EXCEPT !.kind = "unreadable"]

\* Option<JsonlMessage> with its Option<Value> content
Message(content) == Some([content |-> content])

-----------------------------------------------------------------------------
(* parse.rs: extract_text_from_content, try_extract_prompt *)

RECURSIVE FirstTextItem(_, _)
FirstTextItem(arr, i) ==
    IF i > Len(arr) THEN None
    ELSE IF arr[i].type = Some("text") /\ IsSome(arr[i].text) THEN arr[i].text
    ELSE FirstTextItem(arr, i + 1)

extract_text_from_content(value) ==
    CASE value.kind = "string" -> Some(value.s)
      [] value.kind = "array" -> FirstTextItem(value.items, 1)
      [] OTHER -> None

\* try_extract_prompt with the slash-command test made on the raw text, before
\* the markup is stripped.
try_extract_prompt_SlashOnRaw(line) ==
    IF line.msg_type # Some("user") THEN None
    ELSE IF line.is_meta = Some(TRUE) THEN None
    ELSE IF line.is_compact_summary = Some(TRUE) THEN None
    ELSE IF IsNone(line.message) THEN None
    ELSE IF IsNone(Unwrap(line.message).content) THEN None
    ELSE LET raw_text == extract_text_from_content(Unwrap(Unwrap(line.message).content))
         IN  IF IsNone(raw_text) THEN None
             ELSE LET raw == Unwrap(raw_text)
                      stripped == strip_xml_tags(raw)
                  IN  IF stripped = <<>> THEN None
                      ELSE IF /\ Len(raw) >= 2
                              /\ raw[1] = "/"
                              /\ is_alphanumeric(raw[2])
                          THEN None
                      ELSE Some(stripped)

try_extract_prompt(line) ==
    IF line.msg_type # Some("user") THEN None
    ELSE IF line.is_meta = Some(TRUE) THEN None
    ELSE IF line.is_compact_summary = Some(TRUE) THEN None
    ELSE IF IsNone(line.message) THEN None
    ELSE IF IsNone(Unwrap(line.message).content) THEN None
    ELSE LET raw_text == extract_text_from_content(Unwrap(Unwrap(line.message).content))
         IN  IF IsNone(raw_text) THEN None
             ELSE LET stripped == strip_xml_tags(Unwrap(raw_text))
                  IN  IF stripped = <<>> THEN None
                      ELSE IF /\ stripped[1] = "/"
                              /\ Len(stripped) >= 2
                              /\ is_alphanumeric(stripped[2])
                          THEN None
                      ELSE Some(stripped)

-----------------------------------------------------------------------------
(* parse.rs: parse_session *)

MAX_LINES == 50

EmptyAcc == [cwd |-> None, slug |-> None, first_prompt |-> None, status |-> "scan"]

HasControl(c) == \E k \in 1..Len(c) : is_control(c[k])

\* Variants of the loop body: "no_break" never leaves the loop early,
\* "cwd_unchecked" adopts a cwd whatever its characters, "skip_breaks" leaves
\* the loop on a line that does not decode.
ScanLineVariant(st, line, v) ==
    IF line.kind # "record"
        THEN IF v = "skip_breaks" THEN [st EXCEPT !.status = "break"] ELSE st
    ELSE IF IsSome(line.agent_name) THEN [st EXCEPT !.status = "err"]
    ELSE LET cwd1 == IF /\ IsNone(st.cwd)
                        /\ IsSome(line.cwd)
                        /\ (v = "cwd_unchecked" \/ ~HasControl(Unwrap(line.cwd)))
                     THEN line.cwd ELSE st.cwd
             slug1 == IF IsNone(st.slug) /\ IsSome(line.slug) THEN line.slug ELSE st.slug
             prompt1 == IF IsNone(st.first_prompt) THEN try_extract_prompt(line)
                        ELSE st.first_prompt
         IN  [cwd |-> cwd1, slug |-> slug1, first_prompt |-> prompt1,
              status |-> IF /\ v # "no_break"
                            /\ IsSome(cwd1) /\ IsSome(slug1) /\ IsSome(prompt1)
                         THEN "break" ELSE "scan"]

ScanLineNoBreak(st, line) == ScanLineVariant(st, line, "no_break")
ScanLineCwdUnchecked(st, line) == ScanLineVariant(st, line, "cwd_unchecked")
ScanLineSkipBreaks(st, line) == ScanLineVariant(st, line, "skip_breaks")

\* ScanLine with the sub-agent bail-out taken only while no prompt has been
\* collected yet.
ScanLineBailOnlyBeforePrompt(st, line) ==
    IF line.kind # "record" THEN st
    ELSE IF IsSome(line.agent_name) /\ IsNone(st.first_prompt)
        THEN [st EXCEPT !.status = "err"]
    ELSE LET cwd1 == IF IsNone(st.cwd) /\ IsSome(line.cwd) /\ ~HasControl(Unwrap(line.cwd))
                     THEN line.cwd ELSE st.cwd
             slug1 == IF IsNone(st.slug) /\ IsSome(line.slug) THEN line.slug ELSE st.slug
             prompt1 == IF IsNone(st.first_prompt) THEN try_extract_prompt(line)
                        ELSE st.first_prompt
         IN  [cwd |-> cwd1, slug |-> slug1, first_prompt |-> prompt1,
              status |-> IF IsSome(cwd1) /\ IsSome(slug1) /\ IsSome(prompt1)
                         THEN "break" ELSE "scan"]

\* ScanLine with the `slug.is_none()` guard dropped: a later slug overwrites.
ScanLineSlugOverwritten(st, line) ==
    IF line.kind # "record" THEN st
    ELSE IF IsSome(line.agent_name) THEN [st EXCEPT !.status = "err"]
    ELSE LET cwd1 == IF IsNone(st.cwd) /\ IsSome(line.cwd) /\ ~HasControl(Unwrap(line.cwd))
                     THEN line.cwd ELSE st.cwd
             slug1 == IF IsSome(line.slug) THEN line.slug ELSE st.slug
             prompt1 == IF IsNone(st.first_prompt) THEN try_extract_prompt(line)
                        ELSE st.first_prompt
         IN  [cwd |-> cwd1, slug |-> slug1, first_prompt |-> prompt1,
              status |-> IF IsSome(cwd1) /\ IsSome(slug1) /\ IsSome(prompt1)
                         THEN "break" ELSE "scan"]

\* One iteration of the `for line_result in reader.lines().take(MAX_LINES)`
\* loop.  status: "scan" = go on to the next line, "break" = all three fields
\* are set, "err" = the sub-agent bail-out.
ScanLine(st, line) ==
    IF line.kind # "record" THEN st
    ELSE IF IsSome(line.agent_name) THEN [st EXCEPT !.status = "err"]
    ELSE LET cwd1 == IF IsNone(st.cwd) /\ IsSome(line.cwd) /\ ~HasControl(Unwrap(line.cwd))
                     THEN line.cwd ELSE st.cwd
             slug1 == IF IsNone(st.slug) /\ IsSome(line.slug) THEN line.slug ELSE st.slug
             prompt1 == IF IsNone(st.first_prompt) THEN try_extract_prompt(line)
                        ELSE st.first_prompt
         IN  [cwd |-> cwd1, slug |-> slug1, first_prompt |-> prompt1,
              status |-> IF IsSome(cwd1) /\ IsSome(slug1) /\ IsSome(prompt1)
                         THEN "break" ELSE "scan"]

\* str::starts_with
StartsWith(s, prefix) ==
    Len(prefix) <= Len(s) /\ SubSeq(s, 1, Len(prefix)) = prefix

\* The tail of parse_session: project_dir, project_dir_display, last_active.
BuildSessionInfo(session_id, candidate, st, home_dir) ==
    LET project_dir == IF IsSome(st.cwd) THEN Unwrap(st.cwd) ELSE <<>>
        project_dir_display ==
            IF StartsWith(project_dir, home_dir) /\ home_dir # <<>>
            THEN <<"~">> \o SubSeq(project_dir, Len(home_dir) + 1, Len(project_dir))
            ELSE project_dir
    IN  [session_id |-> session_id,
         path |-> candidate.path,
         project_dir |-> project_dir,
         project_dir_display |-> project_dir_display,
         last_active |-> candidate.mtime,
         first_prompt |-> st.first_prompt,
         slug |-> st.slug]

ParseOk(info) == [ok |-> TRUE, err |-> "", info |-> Some(info)]
ParseErr(e) == [ok |-> FALSE, err |-> e, info |-> None]

\* The whole for loop, from line i (1-based) on.
RECURSIVE ScanLines(_, _, _)
ScanLines(st, lines, i) ==
    IF i > Min(Len(lines), MAX_LINES) \/ st.status # "scan" THEN st
    ELSE ScanLines(ScanLine(st, lines[i]), lines, i + 1)

\* parse_session(candidate, home_dir), `file` being what candidate.path names.
parse_session(candidate, file, home_dir) ==
    LET session_id == extract_session_id(file.stem)
    IN  IF IsNone(session_id) THEN ParseErr("InvalidFilename")
        ELSE IF ~file.openable THEN ParseErr("ReadError")
        ELSE LET st == ScanLines(EmptyAcc, file.lines, 1)
             IN  IF st.status = "err" THEN ParseErr("Subagent")
                 ELSE ParseOk(BuildSessionInfo(Unwrap(session_id), candidate, st, home_dir))

-----------------------------------------------------------------------------
(* Session files the parser is run on *)

MaxFileLines == 3

ValidStem ==
    <<"e", "b", "5", "3", "d", "9", "9", "9", "-", "8", "6", "9", "2", "-",
      "4", "2", "c", "e", "-", "a", "3", "7", "6", "-",
      "4", "f", "8", "2", "2", "0", "6", "a", "0", "8", "6", "d">>
UpperStem == [i \in 1..36 |-> IF i = 1 THEN "E" ELSE ValidStem[i]]
ShortStem == <<"n", "o", "t", "-", "a", "-", "u", "u", "i", "d">>
\* 36 characters with a hyphen out of place, and with a letter that is no hex digit
HyphenStem == [i \in 1..36 |-> IF i = 9 THEN "0" ELSE IF i = 10 THEN "-" ELSE ValidStem[i]]
NonHexStem == [i \in 1..36 |-> IF i = 36 THEN "g" ELSE ValidStem[i]]
\* the sessionId some records carry: a valid UUID that is not the file's stem
RecordSessionId == [i \in 1..36 |-> IF i = 1 THEN "f" ELSE ValidStem[i]]

HomeDir == <<"/", "h">>

UserLine(text) ==
    [BlankLine EXCEPT !.msg_type = Some("user"),
                      !.message = Message(Some(StringValue(text)))]

FullLine ==
    [UserLine(<<"h", "i">>) EXCEPT !.cwd = Some(<<"/", "h", "/", "p">>),
                                   !.slug = Some("s1"),
                                   !.session_id = Some(RecordSessionId)]
CwdLine == [BlankLine EXCEPT !.msg_type = Some("system"), !.cwd = Some(<<"/", "q">>)]
SlugLine == [BlankLine EXCEPT !.msg_type = Some("assistant"), !.slug = Some("s2")]
PromptLine == UserLine(<<"y", "o">>)
AgentLine == [FullLine EXCEPT !.agent_name = Some("worker")]
SlashLine == [UserLine(<<"<", "a", ">", "/", "x">>) EXCEPT !.slug = Some("s3")]
CtlCwdLine == [UserLine(<<"c">>) EXCEPT !.cwd = Some(<<"/", "\n">>), !.slug = Some("s4")]
MetaLine == [UserLine(<<"m">>) EXCEPT !.is_meta = Some(TRUE)]
SummaryLine == [BlankLine EXCEPT !.msg_type = Some("summary")]

LineCatalogue ==
    {FullLine, CwdLine, SlugLine, PromptLine, AgentLine, SlashLine, CtlCwdLine,
     MetaLine, MalformedLine}

\* Files open with 0, MAX_LINES - 1 or MAX_LINES lines that do not decode
\* (malformed JSON and invalid UTF-8 in turn), so that the catalogue lines fall
\* before, across and after the line cap.
PadChoices == {0, MAX_LINES - 1, MAX_LINES}

Padding(n) == [i \in 1..n |-> IF i % 2 = 1 THEN MalformedLine ELSE UnreadableLine]

FileBodies == UNION {[1..n -> LineCatalogue] : n \in 0..MaxFileLines}

SessionFile(stem, openable, lines) ==
    [stem |-> stem, openable |-> openable, lines |-> lines]

ParseCandidate == [path |-> <<1, 1>>, mtime |-> 1]

-----------------------------------------------------------------------------
(* The file system under <home>/.claude/projects *)

\* Kinds of the path <home>/.claude/projects:
\*   "dir"            a directory that can be listed
\*   "dir_unlistable" a directory whose read_dir fails
\*   "noaccess"       a directory whose metadata cannot be read (no search
\*                    permission on <home>/.claude)
\*   "file"           a regular file
\*   "missing"        nothing there (also: <home> does not exist)
ProjectsKinds == {"dir", "dir_unlistable", "noaccess", "file", "missing"}

\* Kinds of an entry of the projects directory: a directory, a directory that
\* cannot be listed, a symbolic link to a directory outside the tree, a file.
ProjectKinds == {"dir", "dir_unlistable", "symlink_dir", "file"}

\* Path::is_dir: follows symbolic links; false when the metadata cannot be read.
is_dir(kind) == kind \in {"dir", "dir_unlistable", "symlink_dir"}

\* std::fs::read_dir succeeds
read_dir_ok(kind) == kind \in {"dir", "symlink_dir"}

\* A child of a project directory.  kind: "file" regular file, "dir"
\* directory, "symlink_file" symbolic link to a regular file outside the tree.
\* entry_ok: the directory iterator yields Ok for it; meta_ok: symlink_metadata
\* succeeds; mtime: None when metadata.modified() fails; nested: the mtimes of
\* the .jsonl files inside it when it is a directory.
Child(kind, ext, mtime) ==
    [entry_ok |-> TRUE, kind |-> kind, ext |-> ext, meta_ok |-> TRUE,
     mtime |-> mtime, nested |-> <<>>,
     stem |-> ValidStem, openable |-> TRUE, lines |-> <<>>]

ProjectEntry(kind) == [entry_ok |-> TRUE, kind |-> kind, children |-> <<>>]

-----------------------------------------------------------------------------
(* discover.rs: discover_sessions *)

Candidate(path, mtime) == [path |-> path, mtime |-> mtime]

\* VisitSessionEntry with Path::metadata in place of symlink_metadata: links
\* are followed, so a link to a regular file looks like a regular file.
VisitSessionEntryFollowsLinks(d, p, c, child) ==
    IF ~child.entry_ok THEN d
    ELSE IF child.ext # "jsonl" THEN d
    ELSE LET d1 == [d EXCEPT !.io = @ + 1]
         IN  IF ~child.meta_ok THEN d1
             ELSE IF child.kind \notin {"file", "symlink_file"} THEN d1
             ELSE IF IsNone(child.mtime) THEN d1
             ELSE [d1 EXCEPT !.candidates =
                       Append(@, Candidate(<<p, c>>, Unwrap(child.mtime)))]

\* The body of `for session_entry in session_entries` for child c of project
\* entry p; d is [candidates, io], io counting the metadata calls made.
VisitSessionEntry(d, p, c, child) ==
    IF ~child.entry_ok THEN d
    ELSE IF child.ext # "jsonl" THEN d
    ELSE LET d1 == [d EXCEPT !.io = @ + 1]        \* symlink_metadata
         IN  IF ~child.meta_ok THEN d1
             ELSE IF child.kind = "symlink_file" \/ child.kind # "file" THEN d1
             ELSE IF IsNone(child.mtime) THEN d1
             ELSE [d1 EXCEPT !.candidates =
                       Append(@, Candidate(<<p, c>>, Unwrap(child.mtime)))]

NoCandidates == [candidates |-> <<>>, io |-> 0]

\* What a loop adds is appended to what it had: d followed by e.
Plus(d, e) == [candidates |-> d.candidates \o e.candidates, io |-> d.io + e.io]

\* The session loop over children lo..hi, started from nothing.  Each
\* iteration only appends to the candidates, so the range is visited as two
\* halves put together (the recursion stays shallow on long directories).
RECURSIVE VisitSessionRange(_, _, _, _)
VisitSessionRange(p, children, lo, hi) ==
    IF lo > hi THEN NoCandidates
    ELSE IF lo = hi THEN VisitSessionEntry(NoCandidates, p, lo, children[lo])
    ELSE LET mid == (lo + hi) \div 2
         IN  Plus(VisitSessionRange(p, children, lo, mid),
                  VisitSessionRange(p, children, mid + 1, hi))

VisitSessionEntries(d, p, children) ==
    Plus(d, VisitSessionRange(p, children, 1, Len(children)))

\* The body of `for project_entry in project_entries` for entry p.
VisitProjectEntry(d, p, entry) ==
    IF ~entry.entry_ok THEN d
    ELSE LET d1 == [d EXCEPT !.io = @ + 1]        \* project_path.is_dir()
         IN  IF ~is_dir(entry.kind) THEN d1
             ELSE LET d2 == [d1 EXCEPT !.io = @ + 1]   \* read_dir(&project_path)
                  IN  IF ~read_dir_ok(entry.kind) THEN d2
                      ELSE VisitSessionEntries(d2, p, entry.children)

RECURSIVE VisitProjectEntries(_, _, _)
VisitProjectEntries(d, entries, p) ==
    IF p > Len(entries) THEN d
    ELSE VisitProjectEntries(VisitProjectEntry(d, p, entries[p]), entries, p + 1)

\* The comparator the other way round: a.mtime.cmp(&b.mtime), oldest first.
SortByMtimeAsc(seq) ==
    LET n == Len(seq)
        placed == {<<i, 1 + Cardinality({j \in 1..n :
                            \/ seq[j].mtime < seq[i].mtime
                            \/ seq[j].mtime = seq[i].mtime /\ j < i})>> : i \in 1..n}
    IN  [k \in 1..n |-> seq[(CHOOSE pl \in placed : pl[2] = k)[1]]]

\* candidates.sort_by(|a, b| b.mtime.cmp(&a.mtime)): a stable sort, so element i
\* lands after every element of greater mtime and every earlier element of
\* equal mtime.
SortByMtimeDesc(seq) ==
    LET n == Len(seq)
        placed == {<<i, 1 + Cardinality({j \in 1..n :
                            \/ seq[j].mtime > seq[i].mtime
                            \/ seq[j].mtime = seq[i].mtime /\ j < i})>> : i \in 1..n}
    IN  [k \in 1..n |-> seq[(CHOOSE pl \in placed : pl[2] = k)[1]]]

\* Vec::truncate
Truncate(seq, n) == SubSeq(seq, 1, Min(n, Len(seq)))

DiscoverOk(cands, io) == [ok |-> TRUE, err |-> "", candidates |-> cands, io |-> io]
DiscoverErr(e, io) == [ok |-> FALSE, err |-> e, candidates |-> <<>>, io |-> io]

\* discover_sessions with the limit check after the directory check.
discover_sessions_DirCheckFirst(f, lim) ==
    IF ~is_dir(f.projects) THEN DiscoverErr("ProjectsDirNotFound", 1)
    ELSE IF lim = 0 THEN DiscoverOk(<<>>, 1)
    ELSE IF ~read_dir_ok(f.projects) THEN DiscoverOk(<<>>, 2)
    ELSE LET d == VisitProjectEntries([candidates |-> <<>>, io |-> 2], f.entries, 1)
         IN  DiscoverOk(Truncate(SortByMtimeDesc(d.candidates), lim), d.io)

\* discover_sessions with the read_dir error of the projects directory
\* propagated (`?`) instead of turned into an empty result.
discover_sessions_ReadDirErrPropagates(f, lim) ==
    IF lim = 0 THEN DiscoverOk(<<>>, 0)
    ELSE IF ~is_dir(f.projects) THEN DiscoverErr("ProjectsDirNotFound", 1)
    ELSE IF ~read_dir_ok(f.projects) THEN DiscoverErr("ReadError", 2)
    ELSE LET d == VisitProjectEntries([candidates |-> <<>>, io |-> 2], f.entries, 1)
         IN  DiscoverOk(Truncate(SortByMtimeDesc(d.candidates), lim), d.io)

\* discover_sessions(home_dir, limit) on the file system f
discover_sessions(f, lim) ==
    IF lim = 0 THEN DiscoverOk(<<>>, 0)
    ELSE IF ~is_dir(f.projects) THEN DiscoverErr("ProjectsDirNotFound", 1)
    ELSE IF ~read_dir_ok(f.projects) THEN DiscoverOk(<<>>, 2)
    ELSE LET d == VisitProjectEntries([candidates |-> <<>>, io |-> 2], f.entries, 1)
         IN  DiscoverOk(Truncate(SortByMtimeDesc(d.candidates), lim), d.io)

-----------------------------------------------------------------------------
(* main.rs: load_sessions; display.rs: display_summary and the renderers *)

DiscoverFactor == 5
MinDiscover == 50

\* discover_limit without the floor: limit * 5.
DiscoverLimitNoFloor(lim) == lim * DiscoverFactor

\* let discover_limit = (limit * 5).max(50);
DiscoverLimit(lim) == Max(lim * DiscoverFactor, MinDiscover)

\* The file a candidate's path names.
FileAt(f, path) == f.entries[path[1]].children[path[2]]

LoadOk(sess) == [ok |-> TRUE, err |-> "", sessions |-> sess]
LoadErr(e) == [ok |-> FALSE, err |-> e, sessions |-> <<>>]

\* The match of the loop body of load_sessions on parse_session's result r:
\* the sessions vector afterwards.
LoadCandidate(sess, r) ==
    IF r.ok
    THEN LET info == Unwrap(r.info)
         IN  IF IsNone(info.first_prompt) /\ IsNone(info.slug) THEN sess
             ELSE Append(sess, info)
    ELSE sess

\* shell_escape_single_quote with a quote replaced by two quotes.
shell_escape_single_quote_NoBackslash(str) ==
    LET body == [i \in 1..Len(str) |->
                    IF str[i] = "'" THEN <<"'", "'">> ELSE <<str[i]>>]
        Flat[i \in 0..Len(str)] == IF i = 0 THEN <<>> ELSE Flat[i - 1] \o body[i]
    IN  <<"'">> \o Flat[Len(str)] \o <<"'">>

\* types.rs: shell_escape_single_quote
shell_escape_single_quote(str) ==
    LET pushed == [i \in 1..Len(str) |->
                      IF str[i] = "'" THEN <<"'", "\\", "'", "'">> ELSE <<str[i]>>]
        Escaped[i \in 0..Len(str)] ==
            IF i = 0 THEN <<"'">> ELSE Escaped[i - 1] \o pushed[i]
    IN  Escaped[Len(str)] \o <<"'">>

\* `{}` of a non-negative integer: its decimal digits
RECURSIVE ToDecimal(_)
ToDecimal(n) ==
    LET digit == SubSeq(<<"0", "1", "2", "3", "4", "5", "6", "7", "8", "9">>,
                        (n % 10) + 1, (n % 10) + 1)
    IN  IF n < 10 THEN digit ELSE ToDecimal(n \div 10) \o digit

\* `{:>width$}` of a string: spaces in front up to the width, never a cut
PadLeft(str, width) ==
    [i \in 1..(IF Len(str) >= width THEN 0 ELSE width - Len(str)) |-> " "] \o str

Ago == <<" ", "a", "g", "o">>

\* display.rs: format_relative_time, on duration.num_seconds()
format_relative_time(num_seconds) ==
    LET secs == Max(num_seconds, 0)
    IN  IF secs < 60 THEN <<"<", "1", "m">> \o Ago
        ELSE IF secs < 3600 THEN ToDecimal(secs \div 60) \o <<"m">> \o Ago
        ELSE IF secs < 86400 THEN ToDecimal(secs \div 3600) \o <<"h">> \o Ago
        ELSE IF secs < 604800 THEN ToDecimal(secs \div 86400) \o <<"d">> \o Ago
        ELSE IF secs < 2592000 THEN ToDecimal(secs \div 604800) \o <<"w">> \o Ago
        ELSE IF secs < 31536000 THEN ToDecimal(secs \div 2592000) \o <<"m", "o">> \o Ago
        ELSE ToDecimal(secs \div 31536000) \o <<"y">> \o Ago

\* format_relative_time_short with the first bucket closed at 60 seconds.
format_relative_time_short_MinuteLate(num_seconds) ==
    LET secs == Max(num_seconds, 0)
    IN  IF secs <= 60 THEN <<"<", "1", "m">>
        ELSE IF secs < 3600 THEN ToDecimal(secs \div 60) \o <<"m">>
        ELSE IF secs < 86400 THEN ToDecimal(secs \div 3600) \o <<"h">>
        ELSE IF secs < 604800 THEN ToDecimal(secs \div 86400) \o <<"d">>
        ELSE IF secs < 2592000 THEN ToDecimal(secs \div 604800) \o <<"w">>
        ELSE IF secs < 31536000 THEN ToDecimal(secs \div 2592000) \o <<"m", "o">>
        ELSE ToDecimal(secs \div 31536000) \o <<"y">>

\* display.rs: format_relative_time_short
format_relative_time_short(num_seconds) ==
    LET secs == Max(num_seconds, 0)
    IN  IF secs < 60 THEN <<"<", "1", "m">>
        ELSE IF secs < 3600 THEN ToDecimal(secs \div 60) \o <<"m">>
        ELSE IF secs < 86400 THEN ToDecimal(secs \div 3600) \o <<"h">>
        ELSE IF secs < 604800 THEN ToDecimal(secs \div 86400) \o <<"d">>
        ELSE IF secs < 2592000 THEN ToDecimal(secs \div 604800) \o <<"w">>
        ELSE IF secs < 31536000 THEN ToDecimal(secs \div 2592000) \o <<"m", "o">>
        ELSE ToDecimal(secs \div 31536000) \o <<"y">>

\* format_default: the time field of a session line, `{:>7}` of the long form
time_padded_default(num_seconds) == PadLeft(format_relative_time(num_seconds), 7)

\* format_short: the time field of a session line, `{:>3}` of the short form
time_padded_short(num_seconds) == PadLeft(format_relative_time_short(num_seconds), 3)

\* A character of two bytes in UTF-8 (U+00E9); every other character of the
\* model is one byte.
WideChar == "U+00E9"

\* char::len_utf8
len_utf8(ch) == IF ch = WideChar THEN 2 ELSE 1

\* str::len: the bytes of the string
byte_len(str) == Len(str) + Cardinality({i \in 1..Len(str) : len_utf8(str[i]) = 2})

\* char_indices: the byte offset of the character at position k (from 0)
char_index(str, k) == byte_len(SubSeq(str, 1, k))

\* str::is_char_boundary
is_char_boundary(str, b) == \E k \in 0..Len(str) : char_index(str, k) = b

\* &str[..b] for a b on a character boundary
slice_to(str, b) == SubSeq(str, 1, CHOOSE k \in 0..Len(str) : char_index(str, k) = b)

\* The call did not return: a slice index fell inside a character.
Panicked == <<"panicked at byte index">>

\* truncate_prompt with the character limit taken as a byte offset.
truncate_prompt_ByteLimit(prompt, max_chars) ==
    IF Len(prompt) <= max_chars THEN prompt
    ELSE LET char_limit == IF max_chars >= 3 THEN max_chars - 3 ELSE 0
             byte_limit == Min(char_limit, byte_len(prompt))
         IN  IF ~is_char_boundary(prompt, byte_limit) THEN Panicked
             ELSE LET truncated == slice_to(prompt, byte_limit)
                      spaces == {k \in 1..Len(truncated) : truncated[k] = " "}
                  IN  IF spaces # {}
                      THEN LET last_space == CHOOSE k \in spaces : \A m \in spaces : m <= k
                               last_space_byte == char_index(truncated, last_space - 1)
                           IN  slice_to(truncated, last_space_byte) \o <<".", ".", ".">>
                      ELSE truncated \o <<".", ".", ".">>

\* display.rs: truncate_prompt.  `limit` (char_limit) counts characters,
\* byte_limit and last_space_byte are byte offsets taken from char_indices, and
\* the two slices are cut at them.
truncate_prompt(prompt, max_chars) ==
    IF Len(prompt) <= max_chars THEN prompt
    ELSE LET char_limit == IF max_chars >= 3 THEN max_chars - 3 ELSE 0
             byte_limit == IF char_limit < Len(prompt) THEN char_index(prompt, char_limit)
                           ELSE byte_len(prompt)
         IN  IF ~is_char_boundary(prompt, byte_limit) THEN Panicked
             ELSE LET truncated == slice_to(prompt, byte_limit)
                      spaces == {k \in 1..Len(truncated) : truncated[k] = " "}
                  IN  IF spaces # {}
                      THEN LET last_space == CHOOSE k \in spaces : \A m \in spaces : m <= k
                               last_space_byte == char_index(truncated, last_space - 1)
                           IN  slice_to(truncated, last_space_byte) \o <<".", ".", ".">>
                      ELSE truncated \o <<".", ".", ".">>

EmptyMarker == "(empty session)"

\* display_summary, with the text the renderers print for DisplaySummary::Empty
display_summary(session) ==
    IF IsSome(session.first_prompt)
        THEN [kind |-> "Prompt", prompt |-> session.first_prompt, slug |-> None,
              text |-> ""]
    ELSE IF IsSome(session.slug)
        THEN [kind |-> "Slug", prompt |-> None, slug |-> session.slug, text |-> ""]
    ELSE [kind |-> "Empty", prompt |-> None, slug |-> None, text |-> EmptyMarker]

\* format_default: the summary column of each session line
format_default(sess) ==
    [i \in 1..Len(sess) |-> [index |-> i - 1, summary |-> display_summary(sess[i])]]

\* "cd " and " && claude --resume " of the three format strings
CdPrefix == <<"c", "d", " ">>
ResumeInfix ==
    <<" ", "&", "&", " ", "c", "l", "a", "u", "d", "e", " ", "-", "-", "r",
      "e", "s", "u", "m", "e", " ">>

\* format_json: the fields of each JsonSession, the two times left out
format_json(sess) ==
    [i \in 1..Len(sess) |->
        [index |-> i - 1, session_id |-> sess[i].session_id,
         project_dir |-> sess[i].project_dir,
         project_dir_display |-> sess[i].project_dir_display,
         first_prompt |-> sess[i].first_prompt, slug |-> sess[i].slug,
         resume_command |->
             CdPrefix \o shell_escape_single_quote(sess[i].project_dir)
                 \o ResumeInfix \o sess[i].session_id]]

ExecMarker ==
    <<"_", "_", "C", "C", "S", "E", "S", "H", "_", "E", "X", "E", "C", "_",
      "_">>

\* What a call printed, one element per println!, and how it returned.
Printed(lines) == [ok |-> TRUE, err |-> "", stdout |-> lines]
Bailed(e) == [ok |-> FALSE, err |-> e, stdout |-> <<>>]

\* print_exec_protocol without the session-id validation.
print_exec_protocol_Unchecked(session) ==
    LET escaped_dir == shell_escape_single_quote(session.project_dir)
    IN  Printed(<<ExecMarker,
                  CdPrefix \o escaped_dir \o ResumeInfix \o session.session_id>>)

\* shell.rs: print_exec_protocol
print_exec_protocol(session) ==
    IF ~shell_is_valid_uuid(session.session_id) THEN Bailed("Invalid session ID")
    ELSE LET escaped_dir == shell_escape_single_quote(session.project_dir)
         IN  Printed(<<ExecMarker,
                       CdPrefix \o escaped_dir \o ResumeInfix \o session.session_id>>)

InstructionsHeader ==
    <<"T", "o", " ", "r", "e", "s", "u", "m", "e", " ", "t", "h", "i", "s",
      " ", "s", "e", "s", "s", "i", "o", "n", ",", " ", "r", "u", "n", ":",
      "\n", " ", " ">>

\* format_resume_instructions with the displayed directory quoted.
format_resume_instructions_Display(session) ==
    LET escaped_dir == shell_escape_single_quote(session.project_dir_display)
    IN  InstructionsHeader \o CdPrefix \o escaped_dir \o ResumeInfix
            \o session.session_id

\* shell.rs: format_resume_instructions
format_resume_instructions(session) ==
    LET escaped_dir == shell_escape_single_quote(session.project_dir)
    IN  InstructionsHeader \o CdPrefix \o escaped_dir \o ResumeInfix
            \o session.session_id

\* shell.rs: print_resume_instructions
print_resume_instructions(session) == Printed(<<format_resume_instructions(session)>>)

-----------------------------------------------------------------------------
(* The state of the parts a specification does not run *)

IdleParse ==
    /\ pfile = SessionFile(ValidStem, TRUE, <<>>)
    /\ ppc = "idle"
    /\ lineNo = 0
    /\ acc = EmptyAcc
    /\ presult = None

IdleDiscover ==
    /\ dpc = "idle"
    /\ dlimit = 0
    /\ dresult = None

IdleLoad ==
    /\ lpc = "idle"
    /\ limit = 0
    /\ candidates = <<>>
    /\ ci = 1
    /\ sessions = <<>>
    /\ lresult = None
    /\ output = None

IdleText ==
    /\ tin = <<>>
    /\ tbudget = 0
    /\ tsecs = 0
    /\ tfn = "idle"
    /\ tout = None
    /\ tagain = None

EmptyFs == [projects |-> "dir", entries |-> <<>>]

-----------------------------------------------------------------------------
(* SpecParse: parse_session run line by line on one file *)

InitParse ==
    /\ \E body \in FileBodies, pad \in PadChoices :
         \/ pfile = SessionFile(ValidStem, TRUE, Padding(pad) \o body)
         \/ /\ pad = 0
            /\ pfile \in {SessionFile(UpperStem, TRUE, body),
                          SessionFile(ShortStem, TRUE, body),
                          SessionFile(HyphenStem, TRUE, body),
                          SessionFile(NonHexStem, TRUE, body),
                          SessionFile(ValidStem, FALSE, body)}
    /\ ppc = "start"
    /\ lineNo = 0
    /\ acc = EmptyAcc
    /\ presult = None
    /\ fs = EmptyFs
    /\ IdleDiscover
    /\ IdleLoad
    /\ IdleText

\* extract_session_id and File::open
ParseOpen ==
    /\ ppc = "start"
    /\ IF IsNone(extract_session_id(pfile.stem))
       THEN ppc' = "done" /\ presult' = Some(ParseErr("InvalidFilename"))
       ELSE IF ~pfile.openable
       THEN ppc' = "done" /\ presult' = Some(ParseErr("ReadError"))
       ELSE ppc' = "scan" /\ presult' = presult
    /\ UNCHANGED <<pfile, lineNo, acc, fs, discoverVars, loadVars, textVars>>

\* The loop iteration without `.take(MAX_LINES)`.
ParseLineNoCap ==
    /\ ppc = "scan"
    /\ lineNo < Len(pfile.lines)
    /\ LET st == ScanLine(acc, pfile.lines[lineNo + 1])
       IN  /\ lineNo' = lineNo + 1
           /\ acc' = st
           /\ IF st.status = "err"
              THEN ppc' = "done" /\ presult' = Some(ParseErr("Subagent"))
              ELSE IF st.status = "break"
              THEN ppc' = "build" /\ presult' = presult
              ELSE ppc' = "scan" /\ presult' = presult
    /\ UNCHANGED <<pfile, fs, discoverVars, loadVars, textVars>>

\* one iteration of the line loop
ParseLine ==
    /\ ppc = "scan"
    /\ lineNo < Min(Len(pfile.lines), MAX_LINES)
    /\ LET st == ScanLine(acc, pfile.lines[lineNo + 1])
       IN  /\ lineNo' = lineNo + 1
           /\ acc' = st
           /\ IF st.status = "err"
              THEN ppc' = "done" /\ presult' = Some(ParseErr("Subagent"))
              ELSE IF st.status = "break"
              THEN ppc' = "build" /\ presult' = presult
              ELSE ppc' = "scan" /\ presult' = presult
    /\ UNCHANGED <<pfile, fs, discoverVars, loadVars, textVars>>

\* the loop is over (line cap, end of file or break): build the SessionInfo
ParseFinish ==
    /\ \/ ppc = "build"
       \/ ppc = "scan" /\ lineNo >= Min(Len(pfile.lines), MAX_LINES)
    /\ ppc' = "done"
    /\ presult' = Some(ParseOk(BuildSessionInfo(Unwrap(extract_session_id(pfile.stem)),
                                                ParseCandidate, acc, HomeDir)))
    /\ UNCHANGED <<pfile, lineNo, acc, fs, discoverVars, loadVars, textVars>>

NextParse == ParseOpen \/ ParseLine \/ ParseFinish

SpecParse == InitParse /\ [][NextParse]_vars

-----------------------------------------------------------------------------
(* What a line offers, stated on the file alone *)

IsAgentRecord(line) == line.kind = "record" /\ IsSome(line.agent_name)

OffersCwd(line) ==
    line.kind = "record" /\ IsSome(line.cwd) /\ ~HasControl(Unwrap(line.cwd))
OffersSlug(line) == line.kind = "record" /\ IsSome(line.slug)
OffersPrompt(line) == line.kind = "record" /\ IsSome(try_extract_prompt(line))

\* All three fields have been offered within the first k lines.
Complete(lines, k) ==
    /\ \E i \in 1..k : OffersCwd(lines[i])
    /\ \E i \in 1..k : OffersSlug(lines[i])
    /\ \E i \in 1..k : OffersPrompt(lines[i])

\* Line i is within the line cap and no earlier line completed the three fields.
Examined(lines, i) == i <= MAX_LINES /\ ~Complete(lines, i - 1)

FirstIndex(lines, n, Offers(_)) ==
    CHOOSE i \in 1..n : Offers(lines[i]) /\ \A j \in 1..(i - 1) : ~Offers(lines[j])

FirstCwd(lines, n) ==
    IF \E i \in 1..n : OffersCwd(lines[i])
    THEN lines[FirstIndex(lines, n, OffersCwd)].cwd ELSE None
FirstSlug(lines, n) ==
    IF \E i \in 1..n : OffersSlug(lines[i])
    THEN lines[FirstIndex(lines, n, OffersSlug)].slug ELSE None
FirstPrompt(lines, n) ==
    IF \E i \in 1..n : OffersPrompt(lines[i])
    THEN try_extract_prompt(lines[FirstIndex(lines, n, OffersPrompt)]) ELSE None

ParseDone == ppc = "done" /\ IsSome(presult)
ParseSucceeded == ParseDone /\ Unwrap(presult).ok
ParseFailed == ParseDone /\ ~Unwrap(presult).ok

-----------------------------------------------------------------------------
(* Claims about parse_session, checked under SpecParse *)

\* C1 as stated: parse_session fails for every file in which some record has
\* a non-null agentName, whatever the position of that record in the file.
C1_AnyAgentRecordFails ==
    (ParseDone /\ \E i \in 1..Len(pfile.lines) : IsAgentRecord(pfile.lines[i]))
        => ParseFailed

\* C1 amended: parse_session fails for every file in which some decoded record
\* with a non-null agentName is among the lines the scan examines, that is
\* within the first MAX_LINES lines and not after the line on which cwd, slug
\* and first_prompt have all become set, whatever earlier lines supplied.
C1_ExaminedAgentRecordFails ==
    (ParseDone /\ \E i \in 1..Len(pfile.lines) :
                     IsAgentRecord(pfile.lines[i]) /\ Examined(pfile.lines, i))
        => ParseFailed

\* An agent record on a later line, after earlier lines supplied a slug and a
\* prompt, made the parse fail.
C1_Witness ==
    /\ ParseFailed
    /\ Unwrap(presult).err = "Subagent"
    /\ lineNo >= 2
    /\ IsAgentRecord(pfile.lines[lineNo])
    /\ IsSome(acc.slug)
    /\ IsSome(acc.first_prompt)

\* C10: once cwd, slug or first_prompt is set no later line changes it, and
\* each field of the result is the value of the earliest examined line that
\* offers an acceptable value for it.
C10_ResultIsFirstOffer ==
    ParseSucceeded =>
        LET info == Unwrap(Unwrap(presult).info)
            cwd0 == FirstCwd(pfile.lines, lineNo)
        IN  /\ info.project_dir = (IF IsSome(cwd0) THEN Unwrap(cwd0) ELSE <<>>)
            /\ info.slug = FirstSlug(pfile.lines, lineNo)
            /\ info.first_prompt = FirstPrompt(pfile.lines, lineNo)

C10_NeverOverwritten ==
    /\ IsSome(acc.cwd) => acc'.cwd = acc.cwd
    /\ IsSome(acc.slug) => acc'.slug = acc.slug
    /\ IsSome(acc.first_prompt) => acc'.first_prompt = acc.first_prompt

C10_FirstOccurrenceWins == [](C10_ResultIsFirstOffer) /\ [][C10_NeverOverwritten]_vars

\* Two examined lines offered different slugs and different cwds, and the
\* parse succeeded.
C10_Witness ==
    /\ ParseSucceeded
    /\ \E i \in 1..lineNo : \E j \in (i + 1)..lineNo :
          /\ OffersSlug(pfile.lines[i]) /\ OffersSlug(pfile.lines[j])
          /\ pfile.lines[i].slug # pfile.lines[j].slug
    /\ \E i \in 1..lineNo : \E j \in (i + 1)..lineNo :
          /\ OffersCwd(pfile.lines[i]) /\ OffersCwd(pfile.lines[j])
          /\ pfile.lines[i].cwd # pfile.lines[j].cwd

-----------------------------------------------------------------------------
(* SpecDiscover: a projects tree is set up, then discover_sessions is called *)

MaxEntries == 4
MaxTime == 3
MaxLimit == 2

ProjectEntryChoices ==
    {ProjectEntry(k) : k \in ProjectKinds}
        \cup {[ProjectEntry("dir") EXCEPT !.entry_ok = FALSE]}

ChildChoices ==
    {Child("file", "jsonl", Some(t)) : t \in 1..MaxTime}
        \cup {Child("file", "txt", Some(MaxTime)),
              Child("symlink_file", "jsonl", Some(MaxTime)),
              Child("dir", "jsonl", Some(MaxTime)),
              [Child("dir", "", Some(MaxTime)) EXCEPT !.nested = <<MaxTime>>],
              [Child("file", "jsonl", Some(MaxTime)) EXCEPT !.entry_ok = FALSE],
              [Child("file", "jsonl", Some(MaxTime)) EXCEPT !.meta_ok = FALSE],
              Child("file", "jsonl", None)}

RECURSIVE CountChildren(_, _)
CountChildren(entries, p) ==
    IF p > Len(entries) THEN 0
    ELSE Len(entries[p].children) + CountChildren(entries, p + 1)

TotalEntries(f) == Len(f.entries) + CountChildren(f.entries, 1)

InitDiscover ==
    /\ fs \in {[projects |-> k, entries |-> <<>>] : k \in ProjectsKinds}
    /\ dpc = "setup"
    /\ dlimit = 0
    /\ dresult = None
    /\ IdleParse
    /\ IdleLoad
    /\ IdleText

\* the environment creates an entry in the projects directory
AddProjectEntry ==
    /\ dpc = "setup"
    /\ fs.projects = "dir"
    /\ TotalEntries(fs) < MaxEntries
    /\ \E e \in ProjectEntryChoices :
          fs' = [fs EXCEPT !.entries = Append(@, e)]
    /\ UNCHANGED <<discoverVars, parseVars, loadVars, textVars>>

\* the environment creates a child in the last project directory
AddChild ==
    /\ dpc = "setup"
    /\ Len(fs.entries) > 0
    /\ fs.entries[Len(fs.entries)].kind # "file"
    /\ TotalEntries(fs) < MaxEntries
    /\ \E c \in ChildChoices :
          fs' = [fs EXCEPT !.entries[Len(fs.entries)].children = Append(@, c)]
    /\ UNCHANGED <<discoverVars, parseVars, loadVars, textVars>>

\* discover_sessions(home, l)
CallDiscover ==
    /\ dpc = "setup"
    /\ \E l \in 0..MaxLimit :
          /\ dlimit' = l
          /\ dresult' = Some(discover_sessions(fs, l))
    /\ dpc' = "done"
    /\ UNCHANGED <<fs, parseVars, loadVars, textVars>>

NextDiscover == AddProjectEntry \/ AddChild \/ CallDiscover

SpecDiscover == InitDiscover /\ [][NextDiscover]_vars

-----------------------------------------------------------------------------
(* What the tree holds, stated on the file system alone *)

\* A child that is a candidate by section 4.5: extension jsonl, a regular file
\* (no symbolic link), entry, metadata and modification time readable.
EligibleChild(child) ==
    /\ child.entry_ok
    /\ child.ext = "jsonl"
    /\ child.kind = "file"
    /\ child.meta_ok
    /\ IsSome(child.mtime)

\* A project: a readable entry of the projects directory that is a directory
\* (or leads to one) and can be listed.
ListableProject(entry) == entry.entry_ok /\ entry.kind \in {"dir", "symlink_dir"}

EligibleFiles(f) ==
    UNION {{Candidate(<<p, c>>, Unwrap(f.entries[p].children[c].mtime)) :
                c \in {c \in 1..Len(f.entries[p].children) :
                          EligibleChild(f.entries[p].children[c])}} :
           p \in {p \in 1..Len(f.entries) : ListableProject(f.entries[p])}}

DistinctMtimes(E) == \A a \in E : \A b \in E : a # b => a.mtime # b.mtime

\* r holds the Min(lim, |E|) most recent members of E, most recent first.
TopByMtime(r, E, lim) ==
    /\ Len(r) = Min(lim, Cardinality(E))
    /\ \A i \in 1..Len(r) : r[i] \in E
    /\ \A i \in 1..Len(r) : \A j \in (i + 1)..Len(r) :
          r[i] # r[j] /\ r[i].mtime >= r[j].mtime
    /\ \A e \in E : (\A i \in 1..Len(r) : r[i] # e)
                        => \A i \in 1..Len(r) : r[i].mtime >= e.mtime

DiscoverDone == dpc = "done" /\ IsSome(dresult)
Discovered == Unwrap(dresult).candidates

-----------------------------------------------------------------------------
(* Claims about discover_sessions, checked under SpecDiscover *)

\* C4: for limit >= 1 and an existing projects directory holding N eligible
\* .jsonl files with pairwise distinct mtimes, discover_sessions returns exactly
\* min(limit, N) candidates, sorted by mtime strictly descending, and they are
\* the min(limit, N) most recent eligible files across all project directories.
C4_MostRecentFirst ==
    (/\ DiscoverDone
     /\ dlimit >= 1
     /\ fs.projects = "dir"
     /\ DistinctMtimes(EligibleFiles(fs)))
        => /\ Unwrap(dresult).ok
           /\ TopByMtime(Discovered, EligibleFiles(fs), dlimit)
           /\ \A i \in 1..Len(Discovered) : \A j \in (i + 1)..Len(Discovered) :
                 Discovered[i].mtime > Discovered[j].mtime

\* More eligible files than the limit, in two project directories, and the
\* most recent one is not the one listed first.
C4_Witness ==
    /\ DiscoverDone
    /\ dlimit >= 1
    /\ fs.projects = "dir"
    /\ DistinctMtimes(EligibleFiles(fs))
    /\ Cardinality(EligibleFiles(fs)) > dlimit
    /\ Len(Discovered) = dlimit
    /\ Discovered[1].path[1] = 2
    /\ \E e \in EligibleFiles(fs) : e.path[1] = 1

\* C5: discover_sessions(home, 0) returns an empty list and makes no file
\* system access at all, whatever home is.
C5_LimitZeroNoIo ==
    (DiscoverDone /\ dlimit = 0)
        => /\ Unwrap(dresult).ok
           /\ Discovered = <<>>
           /\ Unwrap(dresult).io = 0

\* limit 0 on a home without a projects directory
C5_Witness ==
    /\ DiscoverDone
    /\ dlimit = 0
    /\ fs.projects = "missing"
    /\ Unwrap(dresult).ok

\* C6: every candidate has extension jsonl, is a regular file that is no
\* symbolic link, and is an immediate child of an entry of the projects
\* directory: nested files, symlinked files and other extensions never appear.
C6_OnlyRegularJsonlChildren ==
    DiscoverDone =>
        \A i \in 1..Len(Discovered) :
            LET path == Discovered[i].path
            IN  /\ Len(path) = 2
                /\ path[1] \in 1..Len(fs.entries)
                /\ path[2] \in 1..Len(fs.entries[path[1]].children)
                /\ fs.entries[path[1]].children[path[2]].ext = "jsonl"
                /\ fs.entries[path[1]].children[path[2]].kind = "file"

\* A project directory with a regular session file beside a symlinked one and
\* a subdirectory holding a nested .jsonl file: the regular file is returned.
C6_Witness ==
    /\ DiscoverDone
    /\ Len(Discovered) = 1
    /\ \E p \in 1..Len(fs.entries) :
          /\ ListableProject(fs.entries[p])
          /\ \E c \in 1..Len(fs.entries[p].children) :
                fs.entries[p].children[c].kind = "symlink_file"
          /\ \E c \in 1..Len(fs.entries[p].children) :
                fs.entries[p].children[c].nested # <<>>

\* C7: every candidate physically resides in a real (non-symlink) project
\* directory under the projects directory.
C7_CandidatesInRealProjectDirs ==
    DiscoverDone =>
        \A i \in 1..Len(Discovered) :
            fs.entries[Discovered[i].path[1]].kind = "dir"

\* The skipping part of C8: with a listable projects directory the result is
\* made of the eligible files, unreadable entries left out, up to the limit.
C8_SkipsUnreadable ==
    /\ fs.projects = "dir_unlistable" => Unwrap(dresult).ok /\ Discovered = <<>>
    /\ fs.projects = "dir" =>
          /\ Unwrap(dresult).ok
          /\ TopByMtime(Discovered, EligibleFiles(fs), dlimit)

\* C8 as stated: with limit >= 1 discover_sessions fails only with
\* ProjectsDirNotFound, and exactly when the projects path is missing or not a
\* directory; an unlistable projects directory gives an empty success and
\* unreadable project directories, entries and metadata are skipped.
C8_FailsIffMissingOrNotDir ==
    (DiscoverDone /\ dlimit >= 1)
        => /\ ~Unwrap(dresult).ok => Unwrap(dresult).err = "ProjectsDirNotFound"
           /\ ~Unwrap(dresult).ok <=> fs.projects \in {"missing", "file"}
           /\ C8_SkipsUnreadable

\* C8 amended: ... and exactly when the projects path is missing, is not a
\* directory, or is a directory whose metadata cannot be read.
C8_FailsIffNotSeenAsDir ==
    (DiscoverDone /\ dlimit >= 1)
        => /\ ~Unwrap(dresult).ok => Unwrap(dresult).err = "ProjectsDirNotFound"
           /\ ~Unwrap(dresult).ok <=> fs.projects \in {"missing", "file", "noaccess"}
           /\ C8_SkipsUnreadable

\* An unlistable project directory and a file without readable metadata are
\* skipped and the eligible file beside them is returned.
C8_Witness ==
    /\ DiscoverDone
    /\ dlimit >= 1
    /\ Len(Discovered) = 1
    /\ \E p \in 1..Len(fs.entries) : fs.entries[p].kind = "dir_unlistable"
    /\ \E p \in 1..Len(fs.entries) :
          /\ ListableProject(fs.entries[p])
          /\ \E c \in 1..Len(fs.entries[p].children) :
                ~fs.entries[p].children[c].meta_ok

-----------------------------------------------------------------------------
(* Spec: the listing command: load_sessions on a projects tree, then render *)

MaxRuns == 2
BigRun == 51
BigLimit == 11

\* The session files of the trees: what parse_session makes of each.
FileClasses == {"prompt", "slug", "empty", "subagent", "baduuid", "unreadable"}

ClassFile(class, mtime) ==
    LET base == Child("file", "jsonl", Some(mtime))
    IN  CASE class = "prompt" -> [base EXCEPT !.lines = <<CwdLine, PromptLine>>]
          [] class = "slug" -> [base EXCEPT !.lines = <<MetaLine, SlugLine>>]
          [] class = "empty" -> [base EXCEPT !.lines = <<SummaryLine>>]
          [] class = "subagent" -> [base EXCEPT !.lines = <<AgentLine>>]
          [] class = "baduuid" -> [base EXCEPT !.stem = ShortStem, !.lines = <<FullLine>>]
          [] class = "unreadable" -> [base EXCEPT !.openable = FALSE]

\* A run is `count` files of one class created one after the other.  Any
\* class comes alone; sub-agent, empty and ordinary sessions also come in bulk.
Runs ==
    [class : FileClasses, count : {1}]
        \cup [class : {"subagent", "empty", "prompt"}, count : {BigRun}]

\* The files of the run of the given recency rank, in directory order.
RunFiles(run, rank) ==
    [j \in 1..run.count |-> ClassFile(run.class, (rank - 1) * BigRun + j)]

\* The directory listing of the runs: rank k when the listing goes from the
\* oldest run to the newest, the reverse otherwise.
RECURSIVE ExpandRuns(_, _, _)
ExpandRuns(runs, k, oldestFirst) ==
    IF k > Len(runs) THEN <<>>
    ELSE RunFiles(runs[k], IF oldestFirst THEN k ELSE Len(runs) + 1 - k)
            \o ExpandRuns(runs, k + 1, oldestFirst)

TreeOf(runs, oldestFirst) ==
    [projects |-> "dir",
     entries |-> <<[ProjectEntry("dir") EXCEPT
                        !.children = ExpandRuns(runs, 1, oldestFirst)]>>]

LimitChoices == (0..MaxLimit) \cup {BigLimit}

Init ==
    /\ \/ \E n \in 0..MaxRuns : \E runs \in [1..n -> Runs] : \E o \in BOOLEAN :
             fs = TreeOf(runs, o)
       \/ fs \in {[projects |-> k, entries |-> <<>>] :
                     k \in {"missing", "dir_unlistable"}}
    /\ lpc = "start"
    /\ limit = 0
    /\ candidates = <<>>
    /\ ci = 1
    /\ sessions = <<>>
    /\ lresult = None
    /\ output = None
    /\ IdleParse
    /\ IdleDiscover
    /\ IdleText

\* load_sessions up to its for loop
LoadStart ==
    /\ lpc = "start"
    /\ \E l \in LimitChoices :
          /\ limit' = l
          /\ IF l = 0
             THEN /\ lresult' = Some(LoadOk(<<>>))
                  /\ lpc' = "loaded"
                  /\ candidates' = candidates
             ELSE LET d == discover_sessions(fs, DiscoverLimit(l))
                  IN  IF ~d.ok
                      THEN /\ lresult' = Some(LoadErr(d.err))
                           /\ lpc' = "loaded"
                           /\ candidates' = candidates
                      ELSE IF d.candidates = <<>>
                      THEN /\ lresult' = Some(LoadErr("NoSessionsFound"))
                           /\ lpc' = "loaded"
                           /\ candidates' = candidates
                      ELSE /\ lresult' = lresult
                           /\ lpc' = "loop"
                           /\ candidates' = d.candidates
    /\ UNCHANGED <<fs, ci, sessions, output, parseVars, discoverVars, textVars>>

\* The loop iteration with parse_session's error propagated (`?`) instead of
\* skipped.
LoadStepErrPropagates ==
    /\ lpc = "loop"
    /\ ci <= Len(candidates)
    /\ Len(sessions) < limit
    /\ LET r == parse_session(candidates[ci], FileAt(fs, candidates[ci].path), HomeDir)
       IN  IF r.ok
           THEN /\ sessions' = LoadCandidate(sessions, r)
                /\ ci' = ci + 1
                /\ UNCHANGED <<lpc, lresult>>
           ELSE /\ lresult' = Some(LoadErr(r.err))
                /\ lpc' = "loaded"
                /\ UNCHANGED <<ci, sessions>>
    /\ UNCHANGED <<fs, limit, candidates, output, parseVars, discoverVars, textVars>>

\* one iteration of `for candidate in &candidates`
LoadStep ==
    /\ lpc = "loop"
    /\ ci <= Len(candidates)
    /\ Len(sessions) < limit
    /\ sessions' = LoadCandidate(sessions,
                       parse_session(candidates[ci], FileAt(fs, candidates[ci].path),
                                     HomeDir))
    /\ ci' = ci + 1
    /\ UNCHANGED <<fs, lpc, limit, candidates, lresult, output, parseVars, discoverVars, textVars>>

\* the loop is over (break or end of the candidates): the final check
LoadFinish ==
    /\ lpc = "loop"
    /\ ci > Len(candidates) \/ Len(sessions) >= limit
    /\ lresult' = IF sessions = <<>> THEN Some(LoadErr("NoSessionsFound"))
                  ELSE Some(LoadOk(sessions))
    /\ lpc' = "loaded"
    /\ UNCHANGED <<fs, limit, candidates, ci, sessions, output, parseVars, discoverVars, textVars>>

\* run(), no command given: print the listing, or the error and exit 1
Render ==
    /\ lpc = "loaded"
    /\ output' =
          IF Unwrap(lresult).ok
          THEN Some([exit |-> 0,
                     default |-> format_default(Unwrap(lresult).sessions),
                     json |-> format_json(Unwrap(lresult).sessions)])
          ELSE Some([exit |-> 1, default |-> <<>>, json |-> <<>>])
    /\ lpc' = "done"
    /\ UNCHANGED <<fs, limit, candidates, ci, sessions, lresult, parseVars, discoverVars, textVars>>

\* A usize as four limbs of 16 bits, the most significant first.
usize(n) == <<0, 0, n \div 65536, n % 65536>>
usize_MAX == <<65535, 65535, 65535, 65535>>

\* `n - 1` on a usize in a build without overflow checks
wrapping_pred(n) == IF n = 0 THEN usize_MAX ELSE usize(n - 1)

\* How run() with an index ends: the exit status, the error, the session
\* chosen, the max of IndexOutOfRange and what was printed.
Ended(exit, err, index, selected, max, stdout) ==
    [exit |-> exit, err |-> err, index |-> index, selected |-> selected,
     max |-> max, stdout |-> stdout]

\* run(), the command is a number: the branch after load_sessions returned.
\* `sessions.len() - 1` on an empty vector panics where the build checks
\* overflow and wraps where it does not.
run_index(loaded, index, shell_mode, overflow_checks) ==
    IF ~loaded.ok THEN Ended(1, loaded.err, index, None, None, <<>>)
    ELSE IF index >= Len(loaded.sessions)
        THEN IF Len(loaded.sessions) = 0 /\ overflow_checks
             THEN Ended(101, "attempt to subtract with overflow", index, None, None, <<>>)
             ELSE Ended(1, "IndexOutOfRange", index, None,
                        Some(wrapping_pred(Len(loaded.sessions))), <<>>)
    ELSE LET session == loaded.sessions[index + 1]
             printed == IF shell_mode THEN print_exec_protocol(session)
                        ELSE print_resume_instructions(session)
         IN  Ended(IF printed.ok THEN 0 ELSE 1, printed.err, index, Some(session),
                   None, printed.stdout)

\* run() with a numeric command, with or without --shell-mode
Select ==
    /\ lpc = "loaded"
    /\ \E index \in 0..(MaxLimit + 1) : \E shell_mode \in BOOLEAN :
       \E overflow_checks \in BOOLEAN :
          output' = Some(run_index(Unwrap(lresult), index, shell_mode, overflow_checks))
    /\ lpc' = "selected"
    /\ UNCHANGED <<fs, limit, candidates, ci, sessions, lresult, parseVars, discoverVars, textVars>>

Next == LoadStart \/ LoadStep \/ LoadFinish \/ Render \/ Select

Spec == Init /\ [][Next]_vars

-----------------------------------------------------------------------------
(* What parse_session makes of the files of the tree *)

ParseOf(f, cand) == parse_session(cand, FileAt(f, cand.path), HomeDir)

\* The file parses and has a first prompt or a slug.
Accepted(f, cand) ==
    LET r == ParseOf(f, cand)
    IN  r.ok /\ (IsSome(Unwrap(r.info).first_prompt) \/ IsSome(Unwrap(r.info).slug))

\* The file parses and has neither.
EmptySession(f, cand) ==
    LET r == ParseOf(f, cand)
    IN  r.ok /\ IsNone(Unwrap(r.info).first_prompt) /\ IsNone(Unwrap(r.info).slug)

LoadReturned == lpc \in {"loaded", "done"} /\ IsSome(lresult)
Returned == Unwrap(lresult).sessions
ReturnedFiles ==
    [i \in 1..Len(Returned) |-> Candidate(Returned[i].path, Returned[i].last_active)]

AcceptedIndices(f, cands) == {k \in 1..Len(cands) : Accepted(f, cands[k])}

\* r is cands with the files that are not accepted left out, cut to lim.
FirstAccepted(r, f, cands, lim) ==
    LET A == AcceptedIndices(f, cands)
    IN  /\ Len(r) = Min(lim, Cardinality(A))
        /\ \A i \in 1..Len(r) :
              \E k \in A : /\ Cardinality({m \in A : m < k}) = i - 1
                           /\ r[i] = cands[k]

\* The number of candidates load_sessions asks discover_sessions for.
C2_Window(lim) == IF 5 * lim >= 50 THEN 5 * lim ELSE 50

-----------------------------------------------------------------------------
(* Claims about load_sessions and the listing, checked under Spec *)

C3_EmptySessionListed ==
    (/\ lpc = "done"
     /\ limit >= 1
     /\ \E k \in 1..Len(candidates) :
           /\ EmptySession(fs, candidates[k])
           /\ Cardinality({m \in 1..(k - 1) : ParseOf(fs, candidates[m]).ok}) < limit)
        => /\ Unwrap(output).exit = 0
           /\ \E i \in 1..Len(Unwrap(output).default) :
                 Unwrap(output).default[i].summary.text = EmptyMarker
           /\ \E i \in 1..Len(Unwrap(output).json) :
                 /\ Unwrap(output).json[i].first_prompt = None
                 /\ Unwrap(output).json[i].slug = None

\* C9: for limit >= 1 with an existing projects directory load_sessions fails
\* with NoSessionsFound exactly when no candidate is discovered or every
\* discovered candidate is rejected or empty; a rejected candidate never makes
\* the run fail while another discovered candidate is accepted.
C9_FailsIffNoneAccepted ==
    (LoadReturned /\ limit >= 1 /\ is_dir(fs.projects))
        => /\ ~Unwrap(lresult).ok => Unwrap(lresult).err = "NoSessionsFound"
           /\ ~Unwrap(lresult).ok <=> AcceptedIndices(fs, candidates) = {}

\* ... and processing continues with the next candidate after each rejection.
C9_RejectionContinues ==
    (/\ lpc = "loop"
     /\ ci <= Len(candidates)
     /\ Len(sessions) < limit
     /\ ~ParseOf(fs, candidates[ci]).ok)
        => /\ lpc' = "loop"
           /\ ci' = ci + 1
           /\ sessions' = sessions
           /\ lresult' = None

-----------------------------------------------------------------------------
(* SpecText: the text functions applied to bounded strings *)

MaxTextLen == 5
MaxBudget == 6
MaxPromptLen == 7

TextAlphabet == {"<", ">", "\n", " ", "a"}
TextInputs == UNION {[1..n -> TextAlphabet] : n \in 0..MaxTextLen}

\* Prompts given to truncate_prompt: words of letters separated by spaces.
PromptInputs == UNION {[1..n -> {" ", "a", WideChar}] : n \in 0..MaxPromptLen}

\* Bytes put into the candidate UUIDs: separator, lowercase and uppercase hex
\* digits, a letter that is no hex digit.
UuidBytes == {"-", "0", "a", "f", "g", "F"}

\* Candidate UUIDs: a valid one with any two bytes replaced, cut short at any
\* length, or extended by one byte.
UuidInputs ==
    {[ValidStem EXCEPT ![i] = a, ![j] = b] :
        i \in 1..36, j \in 1..36, a \in UuidBytes, b \in UuidBytes}
    \cup {SubSeq(ValidStem, 1, n) : n \in 0..35}
    \cup {ValidStem \o <<b>> : b \in UuidBytes}

IsUuidInput(t) == Len(t) > MaxTextLen /\ t \notin PromptInputs

MaxCount == 12

\* Session ages in seconds: up to MaxCount of each unit of the buckets, and
\* the second before and after each.
Durations ==
    {k * u + d : k \in 0..MaxCount,
                 u \in {1, 60, 3600, 86400, 604800, 2592000, 31536000},
                 d \in {-1, 0, 1}}

\* Directory names with the characters a shell treats specially.
EscapeAlphabet == {"'", "\\", " ", "\n", "a"}

EscapeInputs ==
    UNION {[1..n -> EscapeAlphabet] : n \in 0..MaxTextLen}

\* Working directories as parse_session returns them: no control character.
DirInputs == {d \in EscapeInputs : ~HasControl(d)}

\* Session ids handed to the emitters: a valid UUID and four strings that are
\* none.
SessionIds == {ValidStem, UpperStem, ShortStem, HyphenStem, NonHexStem}

\* The session with the given id and working directory, as parse_session
\* builds it.
SessionOf(id, dir) ==
    BuildSessionInfo(id, ParseCandidate, [EmptyAcc EXCEPT !.cwd = Some(dir)], HomeDir)

InitText ==
    /\ tin \in TextInputs \cup PromptInputs \cup UuidInputs \cup EscapeInputs
    /\ tbudget \in 0..MaxBudget
    /\ tin \notin PromptInputs => tbudget = 0
    /\ tsecs \in Durations
    /\ (tin # <<>> \/ tbudget # 0) => tsecs = 0
    /\ tfn = ""
    /\ tout = None
    /\ tagain = None
    /\ fs = EmptyFs
    /\ IdleParse
    /\ IdleDiscover
    /\ IdleLoad

\* strip_xml_tags(tin)
CallStrip ==
    /\ tfn = ""
    /\ tin \in TextInputs
    /\ tbudget = 0
    /\ tsecs = 0
    /\ tfn' = "strip_xml_tags"
    /\ tout' = Some(strip_xml_tags(tin))
    /\ UNCHANGED <<tin, tbudget, tsecs, tagain, fs, parseVars, discoverVars, loadVars>>

\* strip_xml_tags applied to its own result
CallStripAgain ==
    /\ tfn = "strip_xml_tags"
    /\ IsNone(tagain)
    /\ tagain' = Some(strip_xml_tags(Unwrap(tout)))
    /\ UNCHANGED <<tin, tbudget, tsecs, tfn, tout, fs, parseVars, discoverVars, loadVars>>

\* truncate_prompt(tin, tbudget)
CallTruncate ==
    /\ tfn = ""
    /\ tin \in PromptInputs
    /\ tsecs = 0
    /\ tfn' = "truncate_prompt"
    /\ tout' = Some(truncate_prompt(tin, tbudget))
    /\ UNCHANGED <<tin, tbudget, tsecs, tagain, fs, parseVars, discoverVars, loadVars>>

\* parse::is_valid_uuid(tin) and shell::is_valid_uuid(tin)
CallUuid ==
    /\ tfn = ""
    /\ IsUuidInput(tin)
    /\ tfn' = "is_valid_uuid"
    /\ tout' = Some([parse |-> is_valid_uuid(tin), shell |-> shell_is_valid_uuid(tin)])
    /\ UNCHANGED <<tin, tbudget, tsecs, tagain, fs, parseVars, discoverVars, loadVars>>

\* the relative-time formatters and the time fields of the two renderings
CallRelativeTime ==
    /\ tfn = ""
    /\ tin = <<>>
    /\ tbudget = 0
    /\ tfn' = "format_relative_time"
    /\ tout' = Some([long |-> format_relative_time(tsecs),
                     short |-> format_relative_time_short(tsecs),
                     default_field |-> time_padded_default(tsecs),
                     short_field |-> time_padded_short(tsecs)])
    /\ UNCHANGED <<tin, tbudget, tsecs, tagain, fs, parseVars, discoverVars, loadVars>>

\* shell_escape_single_quote(tin)
CallEscape ==
    /\ tfn = ""
    /\ tin \in EscapeInputs
    /\ tbudget = 0
    /\ tsecs = 0
    /\ tfn' = "shell_escape_single_quote"
    /\ tout' = Some(shell_escape_single_quote(tin))
    /\ UNCHANGED <<tin, tbudget, tsecs, tagain, fs, parseVars, discoverVars, loadVars>>

\* The three emitters of the resume command on one session whose working
\* directory is /<tin>, under the home directory or not.
CallEmitters ==
    /\ tfn = ""
    /\ tin \in DirInputs
    /\ tbudget = 0
    /\ tsecs = 0
    /\ tfn' = "emitters"
    /\ \E id \in SessionIds : \E under_home \in BOOLEAN :
          LET dir == (IF under_home THEN HomeDir ELSE <<>>) \o <<"/">> \o tin
              session == SessionOf(id, dir)
          IN  tout' = Some([session |-> session,
                            exec |-> print_exec_protocol(session),
                            instructions |-> format_resume_instructions(session),
                            json |-> format_json(<<session>>)])
    /\ UNCHANGED <<tin, tbudget, tsecs, tagain, fs, parseVars, discoverVars, loadVars>>

NextText ==
    \/ CallEmitters
    \/ CallStrip
    \/ CallStripAgain
    \/ CallTruncate
    \/ CallUuid
    \/ CallRelativeTime
    \/ CallEscape

SpecText == InitText /\ [][NextText]_vars

-----------------------------------------------------------------------------
(* Claims about the text functions, checked under SpecText *)

Truncated == tfn = "truncate_prompt" /\ IsSome(tout)

\* C17: for every string s and every character budget n >= 0,
\* truncate_prompt(s, n) has at most n characters.
C17_WithinBudget ==
    Truncated => Len(Unwrap(tout)) <= tbudget

\* The characters of x at the positions of keep, in order.
Pick(x, keep) ==
    [k \in 1..Cardinality(keep) |->
        x[CHOOSE i \in keep : Cardinality({j \in keep : j < i}) = k - 1]]

IsSpace(ch) == ch \in {" ", "\n", "\t", "\r"}

\* x with every whitespace run replaced by one space and the leading and
\* trailing runs removed: a whitespace character stays (as a space) when it is
\* the first of its run and the run has text on both sides.
Normalized(x) ==
    LET keep == {i \in 1..Len(x) :
                    \/ ~IsSpace(x[i])
                    \/ /\ i > 1
                       /\ ~IsSpace(x[i - 1])
                       /\ \E j \in (i + 1)..Len(x) : ~IsSpace(x[j])}
        y == Pick(x, keep)
    IN  [k \in 1..Len(y) |-> IF IsSpace(y[k]) THEN " " ELSE y[k]]

\* Position i lies in a span running from a '<' to the first following '>'.
InTag(x, i) ==
    \E o \in 1..i : x[o] = "<" /\ \A j \in o..(i - 1) : x[j] # ">"

\* Every '<' of x is followed by a '>' before any newline or the end of x.
AllTagsClosed(x) ==
    \A o \in 1..Len(x) :
        x[o] = "<" => \E e \in (o + 1)..Len(x) :
                          x[e] = ">" /\ \A j \in (o + 1)..(e - 1) : x[j] # "\n"

Stripped == tfn = "strip_xml_tags" /\ IsSome(tout)
StrippedTwice == Stripped /\ IsSome(tagain)

\* C18: strip_xml_tags is idempotent: for every input string x,
\* strip_xml_tags(strip_xml_tags(x)) equals strip_xml_tags(x).
C18_Idempotent ==
    StrippedTwice => Unwrap(tagain) = Unwrap(tout)

\* C19: for every input without '>' strip_xml_tags removes and adds nothing:
\* each '<' span ended by a newline or by the end of the input is emitted
\* exactly once, so the result is the input with whitespace runs collapsed to
\* single spaces and trimmed.
C19_NoCloseNothingRemoved ==
    (Stripped /\ \A i \in 1..Len(tin) : tin[i] # ">")
        => Unwrap(tout) = Normalized(tin)

\* C20: for every input in which each '<' is followed by a '>' before any
\* newline or the end of the input, strip_xml_tags removes exactly the spans
\* from a '<' to the first following '>', keeps every other character in
\* order, then collapses whitespace runs to one space and trims.
C20_TagsRemoved ==
    (Stripped /\ AllTagsClosed(tin))
        => Unwrap(tout) = Normalized(Pick(tin, {i \in 1..Len(tin) : ~InTag(tin, i)}))

\* An opening and a closing tag around a letter: the letter is all that is left.
C20_Witness ==
    /\ Stripped
    /\ AllTagsClosed(tin)
    /\ Cardinality({i \in 1..Len(tin) : tin[i] = "<"}) = 2
    /\ \E i \in 2..(Len(tin) - 1) : /\ tin[i] = "a"
                                    /\ tin[i - 1] = ">"
                                    /\ tin[i + 1] = "<"
    /\ Unwrap(tout) = <<"a">>

-----------------------------------------------------------------------------
(* Further claims about parse_session, checked under SpecParse *)

\* The outcome of parse_session on pfile with its lines replaced.
OutcomeOn(lines) ==
    parse_session(ParseCandidate, [pfile EXCEPT !.lines = lines], HomeDir)

FirstLines(lines, n) == SubSeq(lines, 1, Min(Len(lines), n))

Decodes(line) == line.kind = "record"

AllSet(st) == IsSome(st.cwd) /\ IsSome(st.slug) /\ IsSome(st.first_prompt)

\* The scan is about to read a line.
AboutToRead == ppc = "scan" /\ lineNo < Min(Len(pfile.lines), 50)
NextLine == pfile.lines[lineNo + 1]

\* C11: parse_session examines at most the first 50 lines of a file, lines that
\* do not decode counting toward the 50: the outcome is that of the file cut
\* after its 50th line, so nothing on line 51 or later affects the result.
C11_OnlyFirstFiftyLines ==
    /\ lineNo <= 50
    /\ ParseDone => Unwrap(presult) = OutcomeOn(FirstLines(pfile.lines, 50))

\* Fifty lines that do not decode, then a sub-agent record on line 51: the
\* parse succeeds with nothing collected.
C11_Witness ==
    /\ ParseSucceeded
    /\ Len(pfile.lines) > 50
    /\ lineNo = 50
    /\ IsAgentRecord(pfile.lines[51])
    /\ IsNone(Unwrap(Unwrap(presult).info).slug)

\* C12: parse_session stops scanning as soon as cwd, slug and first_prompt are
\* all set: the outcome is that of the file cut after the line that completes
\* the third field ...
C12_OutcomeOfCompletedPrefix ==
    ParseDone =>
        \A k \in 1..Min(Len(pfile.lines), 50) :
            Complete(pfile.lines, k)
                => /\ lineNo <= k
                   /\ Unwrap(presult) = OutcomeOn(FirstLines(pfile.lines, k))

\* ... and once the three fields are set no further line is read.
C12_NoLineAfterCompletion ==
    AllSet(acc) => (lineNo' = lineNo /\ acc' = acc)

C12_StopsWhenComplete ==
    [](C12_OutcomeOfCompletedPrefix) /\ [][C12_NoLineAfterCompletion]_vars

\* The first line sets all three fields, the unread line after it is a
\* sub-agent record, and the parse succeeds.
C12_Witness ==
    /\ ParseSucceeded
    /\ lineNo < Min(Len(pfile.lines), 50)
    /\ AllSet(acc)
    /\ IsAgentRecord(pfile.lines[lineNo + 1])

\* C13: a line that cannot be decoded is skipped without ending the scan and
\* without failing parse_session: the outcome is that of the first 50 lines
\* with the undecodable ones left out, and a file of undecodable lines only
\* parses successfully with cwd, slug and first_prompt absent ...
C13_OutcomeWithoutUndecodable ==
    ParseDone =>
        /\ Unwrap(presult) = OutcomeOn(SelectSeq(FirstLines(pfile.lines, 50), Decodes))
        /\ (/\ is_valid_uuid(pfile.stem)
            /\ pfile.openable
            /\ \A i \in 1..Len(pfile.lines) : ~Decodes(pfile.lines[i]))
              => /\ Unwrap(presult).ok
                 /\ Unwrap(Unwrap(presult).info).project_dir = <<>>
                 /\ IsNone(Unwrap(Unwrap(presult).info).slug)
                 /\ IsNone(Unwrap(Unwrap(presult).info).first_prompt)

\* ... and the scan goes on to the next line with nothing changed.
C13_UndecodableLineSkipped ==
    (AboutToRead /\ ~Decodes(NextLine))
        => /\ ppc' = "scan"
           /\ lineNo' = lineNo + 1
           /\ acc' = acc
           /\ presult' = None

C13_MalformedLinesSkipped ==
    [](C13_OutcomeWithoutUndecodable) /\ [][C13_UndecodableLineSkipped]_vars

\* Forty-nine undecodable lines and then a record on line 50 that supplies the
\* three fields.
C13_Witness ==
    /\ ParseSucceeded
    /\ lineNo = 50
    /\ \A i \in 1..49 : ~Decodes(pfile.lines[i])
    /\ \E i \in 1..49 : pfile.lines[i].kind = "malformed"
    /\ \E i \in 1..49 : pfile.lines[i].kind = "unreadable"
    /\ AllSet(acc)
    /\ IsSome(Unwrap(Unwrap(presult).info).first_prompt)

\* The text of a record's message content with the markup stripped.
StrippedContent(line) ==
    IF Decodes(line) /\ IsSome(line.message) /\ IsSome(Unwrap(line.message).content)
    THEN LET text == extract_text_from_content(Unwrap(Unwrap(line.message).content))
         IN  IF IsSome(text) THEN Some(strip_xml_tags(Unwrap(text))) ELSE None
    ELSE None

IsSlashCommand(t) ==
    Len(t) >= 2 /\ t[1] = "/" /\ t[2] \in Digits \cup LowerLetters \cup UpperLetters

UserRecord(line) == Decodes(line) /\ line.msg_type = Some("user")

SlashRecord(line) ==
    /\ UserRecord(line)
    /\ IsSome(StrippedContent(line))
    /\ IsSlashCommand(Unwrap(StrippedContent(line)))

\* of type "user", not meta, not a compact summary, non-empty after stripping
\* and not a slash command
PromptRecord(line) ==
    /\ UserRecord(line)
    /\ line.is_meta # Some(TRUE)
    /\ line.is_compact_summary # Some(TRUE)
    /\ IsSome(StrippedContent(line))
    /\ Unwrap(StrippedContent(line)) # <<>>
    /\ ~IsSlashCommand(Unwrap(StrippedContent(line)))

\* C14: a user record whose stripped content starts with '/' followed by an
\* alphanumeric character never becomes first_prompt: first_prompt is the
\* stripped content of the first later record among the scanned lines that is
\* of type "user", not meta, not a compact summary, non-empty after stripping
\* and not a slash command ...
C14_PromptIsFirstLaterPrompt ==
    ParseSucceeded =>
        LET first_prompt == Unwrap(Unwrap(presult).info).first_prompt
        IN  \A i \in 1..lineNo :
                SlashRecord(pfile.lines[i])
                    => /\ first_prompt # StrippedContent(pfile.lines[i])
                       /\ (\A j \in 1..(i - 1) : ~PromptRecord(pfile.lines[j]))
                             => LET later == {j \in (i + 1)..lineNo :
                                                 PromptRecord(pfile.lines[j])}
                                IN  IF later = {} THEN first_prompt = None
                                    ELSE \E j \in later :
                                            /\ \A m \in later : j <= m
                                            /\ first_prompt = StrippedContent(pfile.lines[j])

\* ... and the slash command does not stop the scan.
C14_SlashDoesNotStopScan ==
    (/\ AboutToRead
     /\ SlashRecord(NextLine)
     /\ ~IsAgentRecord(NextLine)
     /\ IsNone(acc.first_prompt))
        => /\ ppc' = "scan"
           /\ lineNo' = lineNo + 1
           /\ acc'.first_prompt = None

C14_SlashCommandSkipped ==
    [](C14_PromptIsFirstLaterPrompt) /\ [][C14_SlashDoesNotStopScan]_vars

\* A slash command wrapped in markup on the first line and the prompt of a
\* later line adopted.
C14_Witness ==
    /\ ParseSucceeded
    /\ lineNo >= 2
    /\ SlashRecord(pfile.lines[1])
    /\ \E j \in 2..lineNo :
          /\ PromptRecord(pfile.lines[j])
          /\ \A m \in 2..(j - 1) : ~PromptRecord(pfile.lines[m])
          /\ Unwrap(Unwrap(presult).info).first_prompt = StrippedContent(pfile.lines[j])

ControlCharacters == {"\n", "\t", "\r"}

RejectedCwd(line) ==
    /\ Decodes(line)
    /\ IsSome(line.cwd)
    /\ \E k \in 1..Len(Unwrap(line.cwd)) : Unwrap(line.cwd)[k] \in ControlCharacters

\* C15: parse_session never adopts a cwd that contains a control character:
\* project_dir has no control character and is the first control-free cwd among
\* the scanned lines, or empty when there is none; a rejected cwd does not
\* prevent the same line's slug or prompt from being adopted.
C15_CwdWithoutControl ==
    ParseSucceeded =>
        LET info == Unwrap(Unwrap(presult).info)
            cwd0 == FirstCwd(pfile.lines, lineNo)
        IN  /\ \A k \in 1..Len(info.project_dir) :
                  info.project_dir[k] \notin ControlCharacters
            /\ info.project_dir = (IF IsSome(cwd0) THEN Unwrap(cwd0) ELSE <<>>)
            /\ \A i \in 1..lineNo :
                  RejectedCwd(pfile.lines[i])
                      => /\ (/\ IsSome(pfile.lines[i].slug)
                             /\ \A j \in 1..(i - 1) : ~OffersSlug(pfile.lines[j]))
                               => info.slug = pfile.lines[i].slug
                         /\ (/\ PromptRecord(pfile.lines[i])
                             /\ \A j \in 1..(i - 1) : ~PromptRecord(pfile.lines[j]))
                               => info.first_prompt = StrippedContent(pfile.lines[i])

\* The first line's cwd is rejected for its newline while its slug and prompt
\* are adopted; a later line supplies the cwd.
C15_Witness ==
    /\ ParseSucceeded
    /\ lineNo >= 2
    /\ RejectedCwd(pfile.lines[1])
    /\ Unwrap(Unwrap(presult).info).slug = pfile.lines[1].slug
    /\ Unwrap(Unwrap(presult).info).first_prompt = StrippedContent(pfile.lines[1])
    /\ Unwrap(Unwrap(presult).info).project_dir # <<>>

HexLower == Digits \cup {"a", "b", "c", "d", "e", "f"}

\* 8-4-4-4-12 lowercase hexadecimal digits separated by hyphens
IsLowerUuid(t) ==
    /\ Len(t) = 36
    /\ \A i \in 1..36 : IF i \in {9, 14, 19, 24} THEN t[i] = "-" ELSE t[i] \in HexLower

\* C16: every SessionInfo returned by parse_session has a session_id that is a
\* valid lowercase UUID and equals the file's name stem (never a record's
\* sessionId); when the stem is no valid UUID parse_session fails and returns
\* no SessionInfo, whatever the file contains.
C16_SessionIdIsStem ==
    ParseDone =>
        /\ Unwrap(presult).ok
              => /\ IsLowerUuid(Unwrap(Unwrap(presult).info).session_id)
                 /\ Unwrap(Unwrap(presult).info).session_id = pfile.stem
        /\ ~IsLowerUuid(pfile.stem)
              => /\ ~Unwrap(presult).ok
                 /\ IsNone(Unwrap(presult).info)

\* A scanned record carries a sessionId other than the stem, and the result
\* has the stem.
C16_Witness ==
    /\ ParseSucceeded
    /\ \E i \in 1..lineNo :
          /\ Decodes(pfile.lines[i])
          /\ IsSome(pfile.lines[i].session_id)
          /\ pfile.lines[i].session_id # Some(pfile.stem)
    /\ Unwrap(Unwrap(presult).info).session_id = pfile.stem

-----------------------------------------------------------------------------
(* Claims about the UUID validators, checked under SpecText *)

Validated == tfn = "is_valid_uuid" /\ IsSome(tout)

\* C21: parse::is_valid_uuid(s) and shell::is_valid_uuid(s) return the same
\* boolean for every input string s.
C21_ValidatorsAgree ==
    Validated => Unwrap(tout).parse = Unwrap(tout).shell

\* Both validators reject a 36-byte candidate whose last separator comes one
\* byte late, and both accept the valid one.
C21_Witness ==
    /\ Validated
    /\ Len(tin) = 36
    /\ tin[24] # "-"
    /\ tin[25] = "-"
    /\ ~Unwrap(tout).parse
    /\ ~Unwrap(tout).shell

\* C22: is_valid_uuid(s) is true exactly when s has 36 characters, those at
\* (0-based) positions 8, 13, 18 and 23 are '-', and every other one is one of
\* 0-9 or a-f; it always returns a boolean.
C22_ExactlyLowerUuids ==
    Validated =>
        /\ Unwrap(tout).parse \in BOOLEAN
        /\ Unwrap(tout).parse <=> IsLowerUuid(tin)

\* An uppercase hex letter in an otherwise valid UUID is rejected.
C22_Witness ==
    /\ Validated
    /\ Len(tin) = 36
    /\ \E i \in 1..36 : tin[i] = "F" /\ [tin EXCEPT ![i] = "f"] = ValidStem
    /\ ~Unwrap(tout).parse

-----------------------------------------------------------------------------
(* Claims about the relative-time formatters, checked under SpecText *)

TimeFormatted == tfn = "format_relative_time" /\ IsSome(tout)

\* The number a string of decimal digits denotes; -1 when it is not one.
RECURSIVE DecimalValue(_)
DecimalValue(str) ==
    IF str = <<>> \/ str[Len(str)] \notin Digits THEN -1
    ELSE LET last == CHOOSE d \in 0..9 :
                        <<"0", "1", "2", "3", "4", "5", "6", "7", "8", "9">>[d + 1]
                            = str[Len(str)]
             front == SubSeq(str, 1, Len(str) - 1)
         IN  IF front = <<>> THEN last
             ELSE IF DecimalValue(front) < 0 THEN -1
             ELSE DecimalValue(front) * 10 + last

\* str is the decimal numeral of n, without leading zeros, followed by suffix.
IsCount(str, n, suffix) ==
    /\ Len(str) > Len(suffix)
    /\ SubSeq(str, Len(str) - Len(suffix) + 1, Len(str)) = suffix
    /\ LET numeral == SubSeq(str, 1, Len(str) - Len(suffix))
       IN  /\ DecimalValue(numeral) = n
           /\ (Len(numeral) > 1 => numeral[1] # "0")

\* The buckets as the claim lists them.
IsRelativeTime(str, d) ==
    LET secs == IF d > 0 THEN d ELSE 0
    IN  CASE secs < 60 -> str = <<"<", "1", "m">>
          [] secs >= 60 /\ secs < 3600 -> IsCount(str, secs \div 60, <<"m">>)
          [] secs >= 3600 /\ secs < 86400 -> IsCount(str, secs \div 3600, <<"h">>)
          [] secs >= 86400 /\ secs < 604800 -> IsCount(str, secs \div 86400, <<"d">>)
          [] secs >= 604800 /\ secs < 2592000 -> IsCount(str, secs \div 604800, <<"w">>)
          [] secs >= 2592000 /\ secs < 31536000
                -> IsCount(str, secs \div 2592000, <<"m", "o">>)
          [] OTHER -> IsCount(str, secs \div 31536000, <<"y">>)

\* C23: format_relative_time_short returns "<1m" below 60 s and the truncated
\* count of minutes, hours, days, weeks, months (2592000 s) or years
\* (31536000 s) with its unit otherwise; format_relative_time returns the same
\* string followed by " ago"; a negative duration gives the output of zero.
C23_RelativeTimeBuckets ==
    TimeFormatted =>
        /\ IsRelativeTime(Unwrap(tout).short, tsecs)
        /\ Unwrap(tout).long = Unwrap(tout).short \o <<" ", "a", "g", "o">>
        /\ tsecs < 0 => Unwrap(tout).short = format_relative_time_short(0)

\* One second short of a year is 12 months; one second short of an hour is 59
\* minutes.
C23_Witness ==
    /\ TimeFormatted
    /\ tsecs = 31536000 - 1
    /\ Unwrap(tout).short = <<"1", "2", "m", "o">>
    /\ Unwrap(tout).long = <<"1", "2", "m", "o", " ", "a", "g", "o">>

\* C27: in default rendering the relative-time field of every session line is
\* exactly 7 characters wide, and in short rendering exactly 3 characters
\* wide, for every session age >= 0.
C27_TimeFieldWidths ==
    (TimeFormatted /\ tsecs >= 0)
        => /\ Len(Unwrap(tout).default_field) = 7
           /\ Len(Unwrap(tout).short_field) = 3

-----------------------------------------------------------------------------
(* Claims about shell quoting, checked under SpecText *)

\* The words a POSIX shell reads from a line made of quotes, backslashes,
\* blanks and ordinary characters: inside single quotes every character is
\* literal up to the next quote; outside, a backslash makes the next character
\* literal and an unquoted blank or newline ends the word.
RECURSIVE ReadWords(_, _, _, _, _, _)
ReadWords(line, i, quoted, word, started, words) ==
    IF i > Len(line)
        THEN IF started THEN Append(words, word) ELSE words
    ELSE IF quoted
        THEN IF line[i] = "'"
             THEN ReadWords(line, i + 1, FALSE, word, TRUE, words)
             ELSE ReadWords(line, i + 1, TRUE, Append(word, line[i]), TRUE, words)
    ELSE IF line[i] = "'"
        THEN ReadWords(line, i + 1, TRUE, word, TRUE, words)
    ELSE IF line[i] = "\\"
        THEN IF i = Len(line) THEN ReadWords(line, i + 1, FALSE, word, TRUE, words)
             ELSE ReadWords(line, i + 2, FALSE, Append(word, line[i + 1]), TRUE, words)
    ELSE IF line[i] \in {" ", "\n"}
        THEN ReadWords(line, i + 1, FALSE, <<>>, FALSE,
                       IF started THEN Append(words, word) ELSE words)
    ELSE ReadWords(line, i + 1, FALSE, Append(word, line[i]), TRUE, words)

ShellWords(line) == ReadWords(line, 1, FALSE, <<>>, FALSE, <<>>)

QuoteCount(str) == Cardinality({i \in 1..Len(str) : str[i] = "'"})

EscapeDone == tfn = "shell_escape_single_quote" /\ IsSome(tout)

\* C24: shell_escape_single_quote(s) is s wrapped in single quotes with each
\* internal quote replaced by the four characters '\'' ; a POSIX shell reading
\* the result gets exactly s as one word, whatever s contains.
C24_QuotedWordReadsBack ==
    EscapeDone =>
        LET out == Unwrap(tout)
        IN  /\ Len(out) = Len(tin) + 2 + 3 * QuoteCount(tin)
            /\ out[1] = "'" /\ out[Len(out)] = "'"
            /\ ShellWords(out) = <<tin>>

\* A name with a quote, a backslash and a blank has been escaped.
C24_Witness ==
    /\ EscapeDone
    /\ {"'", "\\", " "} \subseteq {tin[i] : i \in 1..Len(tin)}
    /\ ShellWords(Unwrap(tout)) = <<tin>>

-----------------------------------------------------------------------------
(* Claims about the emitters of the resume command, checked under SpecText *)

Emitted == tfn = "emitters" /\ IsSome(tout)

\* C28: print_exec_protocol emits the marker line __CCSESH_EXEC__ first and
\* then exactly one command line, and only when session_id is a valid UUID;
\* otherwise it returns an error having emitted neither marker nor command.
C28_MarkerThenOneCommand ==
    Emitted =>
        LET exec == Unwrap(tout).exec
        IN  IF IsLowerUuid(Unwrap(tout).session.session_id)
            THEN /\ exec.ok
                 /\ Len(exec.stdout) = 2
                 /\ exec.stdout[1] = ExecMarker
                 /\ StartsWith(exec.stdout[2], <<"c", "d", " ">>)
                 /\ \A k \in 1..Len(exec.stdout[2]) : exec.stdout[2][k] # "\n"
            ELSE ~exec.ok /\ exec.stdout = <<>>

\* A session id of 36 characters with an upper-case digit is refused.
C28_Witness ==
    /\ Emitted
    /\ Len(Unwrap(tout).session.session_id) = 36
    /\ ~Unwrap(tout).exec.ok
    /\ Unwrap(tout).exec.stdout = <<>>

\* The quoted directory of a resume command: what stands between "cd " and
\* " && claude --resume <session_id>".
QuotedDir(command, session_id) ==
    SubSeq(command, 4, Len(command) - 20 - Len(session_id))

\* The command inside the resume instructions: what follows the header.
InstructionsCommand(text) ==
    SubSeq(text, Len(InstructionsHeader) + 1, Len(text))

\* C30: for one session the resume_command of format_json, the command line
\* of print_exec_protocol and the command inside format_resume_instructions
\* are the same string, "cd " + shell_escape_single_quote(absolute project_dir)
\* + " && claude --resume " + session_id; none uses project_dir_display.
C30_EmittersAgree ==
    Emitted =>
        LET session == Unwrap(tout).session
            json_command == Unwrap(tout).json[1].resume_command
            text == Unwrap(tout).instructions
            exec == Unwrap(tout).exec
        IN  /\ json_command =
                  <<"c", "d", " ">> \o shell_escape_single_quote(session.project_dir)
                      \o <<" ", "&", "&", " ", "c", "l", "a", "u", "d", "e", " ",
                           "-", "-", "r", "e", "s", "u", "m", "e", " ">>
                      \o session.session_id
            /\ StartsWith(text, InstructionsHeader)
            /\ InstructionsCommand(text) = json_command
            /\ exec.ok => exec.stdout[2] = json_command
            /\ ShellWords(QuotedDir(json_command, session.session_id))
                  = <<session.project_dir>>

\* A session under the home directory, displayed with a tilde, with a quote
\* in its directory name, and all three emitters have produced a command.
C30_Witness ==
    /\ Emitted
    /\ Unwrap(tout).exec.ok
    /\ Unwrap(tout).session.project_dir_display[1] = "~"
    /\ Unwrap(tout).session.project_dir[1] = "/"
    /\ "'" \in {tin[i] : i \in 1..Len(tin)}
    /\ Unwrap(tout).exec.stdout[2] = Unwrap(tout).json[1].resume_command

-----------------------------------------------------------------------------
(* The resume command of a parsed session, checked under SpecParse *)

\* The resume commands the emitters build from a session.
ResumeCommands(info) ==
    {format_json(<<info>>)[1].resume_command,
     InstructionsCommand(format_resume_instructions(info))}
        \cup {print_exec_protocol(info).stdout[k] :
                 k \in 2..Len(print_exec_protocol(info).stdout)}

\* C25: for every SessionInfo returned by parse_session the resume command
\* built from it is a single line: it contains no newline or other control
\* character, whatever cwd values the session file contains.
C25_ResumeCommandSingleLine ==
    ParseSucceeded =>
        LET info == Unwrap(Unwrap(presult).info)
        IN  /\ Len(print_exec_protocol(info).stdout) = 2
            /\ \A command \in ResumeCommands(info) :
                  /\ StartsWith(command, <<"c", "d", " ", "'">>)
                  /\ \A k \in 1..Len(command) : command[k] \notin ControlCharacters

\* The file's first cwd holds a newline, a later one does not, and the later
\* one is the directory of the command.
C25_Witness ==
    /\ ParseSucceeded
    /\ lineNo >= 2
    /\ RejectedCwd(pfile.lines[1])
    /\ "\n" \in {Unwrap(pfile.lines[1].cwd)[k] : k \in 1..Len(Unwrap(pfile.lines[1].cwd))}
    /\ Unwrap(Unwrap(presult).info).project_dir # <<>>
    /\ Cardinality(ResumeCommands(Unwrap(Unwrap(presult).info))) = 1

-----------------------------------------------------------------------------
(* The shape of a truncated prompt, checked under SpecText *)

\* C29: truncate_prompt(s, n) returns s unchanged when s has at most n
\* characters; otherwise it returns P followed by "...", where P is the first
\* max(n - 3, 0) characters of s cut just before the last space among them if
\* they contain a space, and exactly those characters if they contain none;
\* P is a prefix of s ending on a character boundary.
C29_PrefixCutAtLastSpace ==
    Truncated =>
        IF Len(tin) <= tbudget THEN Unwrap(tout) = tin
        ELSE LET head == SubSeq(tin, 1, IF tbudget > 3 THEN tbudget - 3 ELSE 0)
                 blanks == {k \in 1..Len(head) : head[k] = " "}
             IN  \E p \in 0..Len(head) :
                    /\ Unwrap(tout) = SubSeq(tin, 1, p) \o <<".", ".", ".">>
                    /\ IF blanks = {} THEN p = Len(head)
                       ELSE p + 1 \in blanks /\ \A k \in blanks : k <= p + 1

\* A prompt cut at the second of two spaces, behind a two-byte character.
C29_Witness ==
    /\ Truncated
    /\ tbudget = 6
    /\ Len(tin) > tbudget
    /\ SubSeq(tin, 1, 3) = <<" ", WideChar, " ">>
    /\ Unwrap(tout) = <<" ", WideChar, ".", ".", ".">>

-----------------------------------------------------------------------------
(* Selection by index, checked under Spec *)

Selected == lpc = "selected" /\ IsSome(output) /\ Unwrap(lresult).ok

\* v is the usize that holds the integer m.
IsUsize(v, m) == m >= 0 /\ v = Some(<<0, 0, m \div 65536, m % 65536>>)

\* C26: given a numeric index, the run selects sessions[index] exactly when
\* index < number of loaded sessions, and otherwise fails with
\* IndexOutOfRange whose maximum is (number of loaded sessions - 1), computed
\* without underflow or panic for every limit, limit 0 with its empty list
\* included.
C26_SelectsOrReportsMax ==
    Selected =>
        LET loaded == Unwrap(lresult).sessions
            ended == Unwrap(output)
        IN  IF ended.index < Len(loaded)
            THEN /\ ended.exit = 0
                 /\ ended.selected = Some(loaded[ended.index + 1])
            ELSE /\ ended.selected = None
                 /\ ended.exit = 1
                 /\ ended.err = "IndexOutOfRange"
                 /\ IsUsize(ended.max, Len(loaded) - 1)

====
